---------------------------- MODULE Spec2Model ----------------------------
(***************************************************************************)
(* Model of the game-statistics scripts of chess-100: the result           *)
(* normalizer, the month / weekday / hour aggregators, the streak and      *)
(* sequence analyzers and the report pipeline built on them, and the       *)
(* move-timing parsers that read the clock annotations of a game; the      *)
(* game store of ChessGameAnalyzer with its file, the dashboard of app.py  *)
(* with its login state and action log, and ChessDataUpdater, which        *)
(* fetches the monthly archives of a player and rewrites the game file.    *)
(*                                                                         *)
(* A game record is a Python dict, modelled as a function whose DOMAIN is  *)
(* the set of keys the dict holds (so a missing key and a key holding None *)
(* are different records).  datetime.fromtimestamp is modelled in UTC.     *)
(***************************************************************************)
EXTENDS Integers, Sequences, FiniteSets, TLC

VARIABLES games, out, moves_text, analyzer, dashboard, updater, played

vars == <<games, out, moves_text, analyzer, dashboard, updater, played>>

-----------------------------------------------------------------------------
(* Bounds of the model *)

\* longest record sequence handed to an analysis
MaxGames == 3

\* how many leading records of a sequence range over every kind of record;
\* the records after them range over the plainly counted ones
MaxVaried == 2

\* longest moves text handed to a move-timing parser, in plies
MaxPlies == 5

\* the largest top-N asked of the move-timing reports
MaxTopN == 2

\* the most games the store of the analyzer holds, and the longest list of
\* new games handed to it
MaxStored == 2

\* the most rows the dashboard appends to its log
MaxLog == 3

\* make_request is called with at most this many retries
MaxRetries == 3

-----------------------------------------------------------------------------
(* Python values *)

\* Python None where a string is expected (a result, a username)
None == "None"

\* Python None (JSON null) where a number is expected (end_time)
Null == -1

\* the empty dict {} used as a default by game.get('white', {})
EmptyDict == <<>>

\* dict.get(key, default)
Get(d, key, default) == IF key \in DOMAIN d THEN d[key] ELSE default

\* the target username of the scripts
USERNAME == "Kalel1130"

\* str.lower() on the usernames of the model
Lower(s) ==
    CASE s = "Kalel1130" -> "kalel1130"
      [] s = "Opponent" -> "opponent"
      [] s = "Stranger" -> "stranger"
      [] OTHER -> s

\* str.strip() : the usernames of the model hold no surrounding blanks
Strip(s) == s

Range(s) == {s[i] : i \in DOMAIN s}

-----------------------------------------------------------------------------
(* datetime.fromtimestamp(end_time), in UTC *)

\* days since 1970-01-01 of a civil date (proleptic Gregorian calendar)
DaysFromCivil(y, m, d) ==
    LET yy  == IF m <= 2 THEN y - 1 ELSE y
        era == yy \div 400
        yoe == yy - era * 400
        mp  == (m + 9) % 12
        doy == (153 * mp + 2) \div 5 + d - 1
        doe == yoe * 365 + yoe \div 4 - yoe \div 100 + doy
    IN  era * 146097 + doe - 719468

Timestamp(y, m, d, H, M) == DaysFromCivil(y, m, d) * 86400 + H * 3600 + M * 60

\* the civil year and month of a day number
CivilFromDays(z0) ==
    LET z   == z0 + 719468
        era == z \div 146097
        doe == z - era * 146097
        yoe == (doe - doe \div 1460 + doe \div 36524 - doe \div 146096) \div 365
        doy == doe - (365 * yoe + yoe \div 4 - yoe \div 100)
        mp  == (5 * doy + 2) \div 153
        m   == IF mp < 10 THEN mp + 3 ELSE mp - 9
        y   == yoe + era * 400 + (IF m <= 2 THEN 1 ELSE 0)
    IN  [year |-> y, month |-> m, day |-> doy - (153 * mp + 2) \div 5 + 1]

\* datetime.date(): the calendar day, as a day number
DateOf(t) == t \div 86400

\* strftime('%Y-%m'): year and month, as the number YYYYMM (ordered as the text is)
MonthOf(t) ==
    LET c == CivilFromDays(DateOf(t)) IN c.year * 100 + c.month

\* datetime.hour
HourOf(t) == (t \div 3600) % 24

days_order ==
    <<"Monday", "Tuesday", "Wednesday", "Thursday", "Friday", "Saturday", "Sunday">>

\* strftime('%A'); 1970-01-01 was a Thursday
DayNameOf(t) == days_order[((DateOf(t) + 3) % 7) + 1]

\* strftime('%Y-%m-%d %H:%M'): the calendar day with the hour and minute
DateTimeOf(t) ==
    LET c == CivilFromDays(DateOf(t))
    IN  [year |-> c.year, month |-> c.month, day |-> c.day,
         hour |-> HourOf(t), minute |-> (t \div 60) % 60]

-----------------------------------------------------------------------------
(* The game records the analyses are run on *)

Player(u, r) == [username |-> u, result |-> r]

\* result of the other side of a game
OpponentResult(r) ==
    IF r = "win" THEN "checkmated"
    ELSE IF r \in {"stalemate"} THEN r
    ELSE "win"

\* who the players of a record are: the target on one side, under its own
\* spelling or in lower case, or two other players
Sides(who, r) ==
    CASE who = "white" ->
           [white |-> Player(USERNAME, r), black |-> Player("Opponent", OpponentResult(r))]
      [] who = "black" ->
           [white |-> Player("Opponent", OpponentResult(r)), black |-> Player(USERNAME, r)]
      [] who = "white_lower" ->
           [white |-> Player(Lower(USERNAME), r), black |-> Player("Opponent", OpponentResult(r))]
      [] who = "black_lower" ->
           [white |-> Player("Opponent", OpponentResult(r)), black |-> Player(Lower(USERNAME), r)]
      [] OTHER ->
           [white |-> Player("Stranger", r), black |-> Player("Opponent", OpponentResult(r))]

\* a record whose end_time key is present (an integer, or Null)
Game(t, who, r) ==
    LET s == Sides(who, r) IN [end_time |-> t, white |-> s.white, black |-> s.black]

\* a record without the end_time key
GameNoEndTime(who, r) == Sides(who, r)

T1 == Timestamp(2024, 1, 15, 10, 5)    \* a Monday, 10:05
T2 == Timestamp(2024, 1, 20, 10, 58)   \* a Saturday of the same month, 10:58
T3 == Timestamp(2024, 2, 3, 14, 30)    \* a Saturday of the next month, 14:30
T4 == Timestamp(2024, 1, 20, 11, 3)    \* five minutes after T2, in the next hour

ResultStrings ==
    {"win", "timeout", "checkmated", "resigned", "lose", "abandoned", "stalemate"}

Records ==
    {Game(t, "white", r) : t \in {T1, T2}, r \in ResultStrings}
    \cup {Game(T3, "black", r) : r \in {"win", "timeout", "resigned"}}
    \cup {Game(T1, who, "win") : who \in {"white_lower", "black_lower", "neither"}}
    \cup {Game(Null, "white", r) : r \in {"win", "timeout"}}
    \cup {GameNoEndTime("white", r) : r \in {"win", "checkmated"}}

\* won and lost games of the target around an hour boundary
CoreRecords == {Game(t, "white", r) : t \in {T2, T4}, r \in {"win", "resigned"}}

-----------------------------------------------------------------------------
(* The result normalizer *)

\* get_game_result with 'abandoned' left out of the list of lost games
get_game_result_no_abandoned(game, username) ==
    LET result ==
          IF Get(Get(game, "white", EmptyDict), "username", None) = username
          THEN Get(Get(game, "white", EmptyDict), "result", None)
          ELSE IF Get(Get(game, "black", EmptyDict), "username", None) = username
          THEN Get(Get(game, "black", EmptyDict), "result", None)
          ELSE None
    IN  IF result = "win" THEN "win"
        ELSE IF result = "timeout" THEN "timeout"
        ELSE IF result \in {"checkmated", "resigned", "lose"} THEN "loss"
        ELSE None

\* utils/game_analysis.py get_game_result
get_game_result(game, username) ==
    LET result ==
          IF Get(Get(game, "white", EmptyDict), "username", None) = username
          THEN Get(Get(game, "white", EmptyDict), "result", None)
          ELSE IF Get(Get(game, "black", EmptyDict), "username", None) = username
          THEN Get(Get(game, "black", EmptyDict), "result", None)
          ELSE None
    IN  IF result = "win" THEN "win"
        ELSE IF result = "timeout" THEN "timeout"
        ELSE IF result \in {"checkmated", "resigned", "lose", "abandoned"} THEN "loss"
        ELSE None

-----------------------------------------------------------------------------
(* Python numbers, exceptions and sorting *)

\* what a call gives: a returned value, or an exception raised to the caller
Ok(v) == [status |-> "ok", value |-> v]
Raise(e) == [status |-> "raise", exc |-> e]

\* a float, kept exact as num / den; raised marks a ZeroDivisionError
Float(n, d) == [raised |-> FALSE, num |-> n, den |-> d]
ZeroDivision == [raised |-> TRUE, num |-> 0, den |-> 1]

\* the int literal 0 of the "... else 0" branches
Zero == Float(0, 1)

\* a / b
TrueDiv(a, b) == IF b = 0 THEN ZeroDivision ELSE Float(a, b)

\* a / b * 100
Percent(a, b) == IF b = 0 THEN ZeroDivision ELSE Float(a * 100, b)

\* the integer nearest to n / d, ties to the even one (Python's round)
RoundHalfEven(n, d) ==
    LET q == n \div d
        r == n % d
    IN  IF 2 * r < d THEN q
        ELSE IF 2 * r > d THEN q + 1
        ELSE IF q % 2 = 0 THEN q ELSE q + 1

\* round(x, 1): a number of tenths
Round1(x) ==
    IF x.raised THEN x ELSE Float(RoundHalfEven(x.num * 10, x.den), 10)

IsZero(x) == ~x.raised /\ x.num = 0

\* 0 <= x <= 100
InPercentRange(x) == ~x.raised /\ 0 <= x.num /\ x.num <= 100 * x.den

\* "not end_time": None and 0 are falsy
Falsy(end_time) == end_time = Null \/ end_time = 0

\* "if result": None and the empty string are falsy
Truthy(result) == result # None /\ result # ""

\* x.get('end_time', 0), the sort key of utils/game_analysis.py
KeyEndTimeOr0(game) == Get(game, "end_time", 0)

\* x.get('end_time'), the sort key of app.py and of the tilt detector
KeyEndTime(game) == Get(game, "end_time", Null)

\* sorted() compares the keys with <, and None < int, int < None and
\* None < None all raise TypeError; a list of one element compares nothing
SortRaises(keys) == Len(keys) >= 2 /\ \E i \in DOMAIN keys : keys[i] = Null

RECURSIVE InsertByKey(_, _)
InsertByKey(s, p) ==
    IF s = <<>> THEN <<p>>
    ELSE IF Head(s).key <= p.key THEN <<Head(s)>> \o InsertByKey(Tail(s), p)
    ELSE <<p>> \o s

\* stable sort of <<key, game>> pairs by key
RECURSIVE SortPairs(_)
SortPairs(s) ==
    IF s = <<>> THEN <<>>
    ELSE InsertByKey(SortPairs(SubSeq(s, 1, Len(s) - 1)), s[Len(s)])

\* sorted(games, key=lambda x: x.get('end_time', 0))
sorted_or0(gs) ==
    LET keys == [i \in DOMAIN gs |-> KeyEndTimeOr0(gs[i])]
        srt  == SortPairs([i \in DOMAIN gs |-> [key |-> keys[i], game |-> gs[i]]])
    IN  IF SortRaises(keys) THEN Raise("TypeError")
        ELSE Ok([i \in DOMAIN srt |-> srt[i].game])

\* sorted(games, key=lambda x: x.get('end_time'))
sorted_end_time(gs) ==
    LET keys == [i \in DOMAIN gs |-> KeyEndTime(gs[i])]
        srt  == SortPairs([i \in DOMAIN gs |-> [key |-> keys[i], game |-> gs[i]]])
    IN  IF SortRaises(keys) THEN Raise("TypeError")
        ELSE Ok([i \in DOMAIN srt |-> srt[i].game])

-----------------------------------------------------------------------------
(* Bucket tables: a defaultdict, kept as the sequence of its entries in     *)
(* insertion order                                                          *)

\* position of a key in a table, 0 when the table has no entry for it
KeyIndex(table, key) ==
    IF \E i \in DOMAIN table : table[i].key = key
    THEN CHOOSE i \in DOMAIN table : table[i].key = key
    ELSE 0

\* defaultdict(int): d[k] += 1
IncCounter(d, k) ==
    IF k \in DOMAIN d THEN [d EXCEPT ![k] = @ + 1] ELSE d @@ (k :> 1)

\* defaultdict of counter dicts: table[key][k] += 1, where a key not yet in
\* the table is first given the default entry
IncBucket(table, key, k, default) ==
    IF KeyIndex(table, key) = 0
    THEN Append(table, [key |-> key, stats |-> IncCounter(default, k)])
    ELSE [table EXCEPT ![KeyIndex(table, key)].stats = IncCounter(@, k)]

-----------------------------------------------------------------------------
(* utils/game_analysis.py: overall totals, month buckets, weekday-hour      *)
(* buckets                                                                  *)

RECURSIVE analyze_games_loop(_, _, _)
analyze_games_loop(gs, username, acc) ==
    IF gs = <<>> THEN acc
    ELSE LET result == get_game_result(Head(gs), username)
             acc2 ==
               IF result = "win" THEN [acc EXCEPT !.wins = @ + 1]
               ELSE IF result = "timeout"
                    THEN [acc EXCEPT !.timeouts = @ + 1, !.losses = @ + 1]
               ELSE IF result = "loss" THEN [acc EXCEPT !.losses = @ + 1]
               ELSE acc
         IN  analyze_games_loop(Tail(gs), username, acc2)

\* analyze_games: overall statistics
analyze_games(gs, username) ==
    LET total_games == Len(gs)
        acc == analyze_games_loop(gs, username, [wins |-> 0, losses |-> 0, timeouts |-> 0])
    IN  Ok([total_games |-> total_games,
            wins |-> acc.wins,
            losses |-> acc.losses,
            timeouts |-> acc.timeouts,
            win_rate |-> IF total_games > 0 THEN Percent(acc.wins, total_games) ELSE Zero,
            timeout_rate |-> IF total_games > 0 THEN Percent(acc.timeouts, total_games) ELSE Zero])

\* lambda: {'games': 0, 'wins': 0, 'losses': 0, 'timeouts': 0}
monthly_default == [games |-> 0, wins |-> 0, losses |-> 0, timeouts |-> 0]

\* the body of the month loop for one game
monthly_step(monthly_data, game, username) ==
    LET end_time == Get(game, "end_time", Null)
        month == MonthOf(end_time)
        result == get_game_result(game, username)
    IN  IF Falsy(end_time) THEN monthly_data
        ELSE IF ~Truthy(result) THEN monthly_data
        ELSE LET d1 == IncBucket(monthly_data, month, "games", monthly_default)
             IN  IF result = "win" THEN IncBucket(d1, month, "wins", monthly_default)
                 ELSE IF result = "timeout"
                      THEN IncBucket(IncBucket(d1, month, "timeouts", monthly_default),
                                     month, "losses", monthly_default)
                 ELSE IF result = "loss" THEN IncBucket(d1, month, "losses", monthly_default)
                 ELSE d1

RECURSIVE monthly_loop(_, _, _)
monthly_loop(gs, username, monthly_data) ==
    IF gs = <<>> THEN monthly_data
    ELSE monthly_loop(Tail(gs), username, monthly_step(monthly_data, Head(gs), username))

\* monthly_data once the loop of generate_monthly_report is over
monthly_data_of(sorted_games, username) == monthly_loop(sorted_games, username, <<>>)

\* one row of the monthly DataFrame
monthly_row(entry) ==
    LET data == entry.stats
    IN  [Month |-> entry.key,
         Games_Played |-> data.games,
         Wins |-> data.wins,
         Losses |-> data.losses,
         Win_Rate_percent |->
             IF data.games # 0 THEN Round1(Percent(data.wins, data.games)) ELSE Zero,
         Timeout_Rate_percent |->
             IF data.games # 0 THEN Round1(Percent(data.timeouts, data.games)) ELSE Zero]

\* generate_monthly_report: the rows of the DataFrame
generate_monthly_report(gs, username) ==
    LET sorted_games == sorted_or0(gs)
    IN  IF sorted_games.status = "raise" THEN sorted_games
        ELSE LET monthly_data == monthly_data_of(sorted_games.value, username)
             IN  Ok([i \in DOMAIN monthly_data |-> monthly_row(monthly_data[i])])

\* f"{result}s", the counter analyze_time_stats increments
CounterName(result) == result \o "s"

\* the body of the weekday-hour loop for one game
time_stats_step(daily_data, game, username) ==
    LET end_time == Get(game, "end_time", Null)
        day_hour == <<DayNameOf(end_time), HourOf(end_time)>>
        result == get_game_result(game, username)
    IN  IF Falsy(end_time) THEN daily_data
        ELSE IF ~Truthy(result) THEN daily_data
        ELSE IncBucket(IncBucket(daily_data, day_hour, "games_played", EmptyDict),
                       day_hour, CounterName(result), EmptyDict)

RECURSIVE time_stats_loop(_, _, _)
time_stats_loop(gs, username, daily_data) ==
    IF gs = <<>> THEN daily_data
    ELSE time_stats_loop(Tail(gs), username, time_stats_step(daily_data, Head(gs), username))

\* daily_data once the loop of analyze_time_stats is over
daily_data_of(sorted_games, username) == time_stats_loop(sorted_games, username, <<>>)

\* one entry of time_stats; the rates divide by games_played without a guard
time_stats_row(entry) ==
    LET stats == entry.stats
        games_played == Get(stats, "games_played", 0)
    IN  [day_of_week |-> entry.key[1],
         hour |-> entry.key[2],
         games_played |-> games_played,
         wins |-> Get(stats, "wins", 0),
         losses |-> Get(stats, "losses", 0),
         timeouts |-> Get(stats, "timeouts", 0),
         win_rate_percent |-> Round1(Percent(Get(stats, "wins", 0), games_played)),
         loss_rate_percent |-> Round1(Percent(Get(stats, "losses", 0), games_played)),
         timeout_rate_percent |-> Round1(Percent(Get(stats, "timeouts", 0), games_played))]

\* position of a day name in days_order
DayIndex(day) == CHOOSE i \in DOMAIN days_order : days_order[i] = day

\* the sort key (days_order.index(day_of_week), hour), as one number
DayHourKey(row) == DayIndex(row.day_of_week) * 24 + row.hour

\* analyze_time_stats: the entries sorted by weekday and hour
analyze_time_stats(gs, username) ==
    LET sorted_games == sorted_or0(gs)
    IN  IF sorted_games.status = "raise" THEN sorted_games
        ELSE LET daily_data == daily_data_of(sorted_games.value, username)
                 rows == [i \in DOMAIN daily_data |-> time_stats_row(daily_data[i])]
                 srt == SortPairs([i \in DOMAIN rows |->
                                     [key |-> DayHourKey(rows[i]), game |-> rows[i]]])
             IN  IF \E i \in DOMAIN rows :
                        \/ rows[i].win_rate_percent.raised
                        \/ rows[i].loss_rate_percent.raised
                        \/ rows[i].timeout_rate_percent.raised
                 THEN Raise("ZeroDivisionError")
                 ELSE Ok([i \in DOMAIN srt |-> srt[i].game])

-----------------------------------------------------------------------------
(* archive/main.py: month, weekday, hour and weekday-hour buckets *)

\* archive/main.py get_game_result: the raw result string of the user's side
main_get_game_result(game, username) ==
    IF Get(Get(game, "white", EmptyDict), "username", None) = username
    THEN Get(Get(game, "white", EmptyDict), "result", None)
    ELSE IF Get(Get(game, "black", EmptyDict), "username", None) = username
    THEN Get(Get(game, "black", EmptyDict), "result", None)
    ELSE None

\* calculate_rates: the win, loss and timeout rate of one bucket
calculate_rates(data, total_games) ==
    [win_rate |->
         IF total_games # 0 THEN Round1(Percent(Get(data, "wins", 0), total_games)) ELSE Zero,
     loss_rate |->
         IF total_games # 0 THEN Round1(Percent(Get(data, "losses", 0), total_games)) ELSE Zero,
     timeout_rate |->
         IF total_games # 0 THEN Round1(Percent(Get(data, "timeouts", 0), total_games)) ELSE Zero]

\* defaultdict(int) keyed by bucket: games_per[key] += 1
IncGames(games_per, key) ==
    IF KeyIndex(games_per, key) = 0
    THEN Append(games_per, [key |-> key, n |-> 1])
    ELSE [games_per EXCEPT ![KeyIndex(games_per, key)].n = @ + 1]

\* category_stats counting a timeout as a loss twice: once with the lost
\* games and once more with the timeouts
category_stats_double_count(stats_per, key, result) ==
    IF result = "win" THEN IncBucket(stats_per, key, "wins", EmptyDict)
    ELSE IF result \in {"checkmated", "timeout", "resigned", "lose", "abandoned"}
    THEN LET s1 == IncBucket(stats_per, key, "losses", EmptyDict)
         IN  IF result = "timeout"
             THEN IncBucket(IncBucket(s1, key, "timeouts", EmptyDict),
                            key, "losses", EmptyDict)
             ELSE s1
    ELSE stats_per

\* category_stats tallying only the first game of a bucket: the tally then
\* depends on which game comes first
category_stats_first_only(stats_per, key, result) ==
    IF KeyIndex(stats_per, key) # 0 THEN stats_per
    ELSE IF result = "win" THEN IncBucket(stats_per, key, "wins", EmptyDict)
    ELSE IF result \in {"checkmated", "timeout", "resigned", "lose", "abandoned"}
    THEN LET s1 == IncBucket(stats_per, key, "losses", EmptyDict)
         IN  IF result = "timeout" THEN IncBucket(s1, key, "timeouts", EmptyDict) ELSE s1
    ELSE stats_per

\* the tally of one category (the same code for month, day, hour, day-hour)
category_stats(stats_per, key, result) ==
    IF result = "win" THEN IncBucket(stats_per, key, "wins", EmptyDict)
    ELSE IF result \in {"checkmated", "timeout", "resigned", "lose", "abandoned"}
    THEN LET s1 == IncBucket(stats_per, key, "losses", EmptyDict)
         IN  IF result = "timeout" THEN IncBucket(s1, key, "timeouts", EmptyDict) ELSE s1
    ELSE stats_per

category_step(cat, key, result) ==
    [games_per |-> IncGames(cat.games_per, key),
     stats_per |-> category_stats(cat.stats_per, key, result)]

\* the body of the loop of archive analyze_games for one game
main_step(acc, game, username) ==
    LET end_time == Get(game, "end_time", Null)
        month == MonthOf(end_time)
        day_of_week == DayNameOf(end_time)
        hour_of_day == HourOf(end_time)
        day_hour == <<day_of_week, hour_of_day>>
        result == main_get_game_result(game, username)
    IN  IF Falsy(end_time) THEN acc
        ELSE IF ~Truthy(result) THEN acc
        ELSE [month |-> category_step(acc.month, month, result),
              day |-> category_step(acc.day, day_of_week, result),
              hour |-> category_step(acc.hour, hour_of_day, result),
              day_hour |-> category_step(acc.day_hour, day_hour, result)]

RECURSIVE main_loop(_, _, _)
main_loop(gs, username, acc) ==
    IF gs = <<>> THEN acc
    ELSE main_loop(Tail(gs), username, main_step(acc, Head(gs), username))

EmptyCategory == [games_per |-> <<>>, stats_per |-> <<>>]

\* archive/main.py analyze_games: the four pairs (games_per_X, stats_per_X)
main_analyze_games(gs, username) ==
    main_loop(gs, username,
              [month |-> EmptyCategory, day |-> EmptyCategory,
               hour |-> EmptyCategory, day_hour |-> EmptyCategory])

\* stats_per_category[key] of a defaultdict: the empty dict when never tallied
StatsOf(stats_per, key) ==
    IF KeyIndex(stats_per, key) = 0 THEN EmptyDict
    ELSE stats_per[KeyIndex(stats_per, key)].stats

\* generate_report: one row per key of games_per_category, in its order
generate_report(cat) ==
    [i \in DOMAIN cat.games_per |->
        LET key == cat.games_per[i].key
            total_games == cat.games_per[i].n
            data == StatsOf(cat.stats_per, key)
            rates == calculate_rates(data, total_games)
        IN  [key |-> key,
             Games_Played |-> total_games,
             Wins |-> Get(data, "wins", 0),
             Losses |-> Get(data, "losses", 0),
             Timeouts |-> Get(data, "timeouts", 0),
             Win_Rate |-> rates.win_rate,
             Loss_Rate |-> rates.loss_rate,
             Timeout_Rate |-> rates.timeout_rate]]

\* archive/main.py main: the four reports of a record sequence
main_reports(gs, username) ==
    LET a == main_analyze_games(gs, username)
    IN  [Month |-> generate_report(a.month),
         Day |-> generate_report(a.day),
         Hour |-> generate_report(a.hour),
         Day_Hour |-> generate_report(a.day_hour)]

-----------------------------------------------------------------------------
(* archive/consecutive.py: streak and sequence probabilities *)

\* archive/consecutive.py get_game_result: win, loss or None
consecutive_get_game_result(game, username) ==
    LET result ==
          IF Get(Get(game, "white", EmptyDict), "username", None) = username
          THEN Get(Get(game, "white", EmptyDict), "result", None)
          ELSE IF Get(Get(game, "black", EmptyDict), "username", None) = username
          THEN Get(Get(game, "black", EmptyDict), "result", None)
          ELSE None
    IN  IF result = "win" THEN "win"
        ELSE IF result \in {"checkmated", "timeout", "resigned", "lose", "abandoned"}
        THEN "loss"
        ELSE None

\* calculate_probability without its "if denominator" guard
calculate_probability_unguarded(numerator, denominator) ==
    Percent(numerator, denominator)

\* calculate_probability
calculate_probability(numerator, denominator) ==
    IF denominator # 0 THEN Percent(numerator, denominator) ELSE Zero

\* the loop body of analyze_streaks taking two games as adjacent when they
\* end less than an hour apart, instead of in the same hour of the day
streaks_step_within_an_hour(st, game, username) ==
    LET end_time == Get(game, "end_time", Null)
        current_result == consecutive_get_game_result(game, username)
        counted ==
          IF Truthy(st.previous_result) /\ end_time - st.previous_hour < 3600
          THEN IF st.previous_result = "win"
               THEN [st EXCEPT !.total_win_streaks = @ + 1,
                               !.win_after_win =
                                   IF current_result = "win" THEN @ + 1 ELSE @]
               ELSE IF st.previous_result = "loss"
               THEN [st EXCEPT !.total_loss_streaks = @ + 1,
                               !.loss_after_loss =
                                   IF current_result = "loss" THEN @ + 1 ELSE @]
               ELSE st
          ELSE st
    IN  IF Falsy(end_time) THEN st
        ELSE IF ~Truthy(current_result) THEN st
        ELSE [counted EXCEPT !.previous_result = current_result,
                             !.previous_hour = end_time]

\* the loop body of analyze_streaks counting a pair toward the win-streak
\* total only when the current game is won as well
streaks_step_won_pairs_only(st, game, username) ==
    LET end_time == Get(game, "end_time", Null)
        hour_of_day == HourOf(end_time)
        current_result == consecutive_get_game_result(game, username)
        counted ==
          IF Truthy(st.previous_result) /\ st.previous_hour = hour_of_day
          THEN IF st.previous_result = "win" /\ current_result = "win"
               THEN [st EXCEPT !.total_win_streaks = @ + 1, !.win_after_win = @ + 1]
               ELSE IF st.previous_result = "loss" /\ current_result = "loss"
               THEN [st EXCEPT !.total_loss_streaks = @ + 1, !.loss_after_loss = @ + 1]
               ELSE st
          ELSE st
    IN  IF Falsy(end_time) THEN st
        ELSE IF ~Truthy(current_result) THEN st
        ELSE [counted EXCEPT !.previous_result = current_result,
                             !.previous_hour = hour_of_day]

\* the body of the loop of analyze_streaks for one game
streaks_step(st, game, username) ==
    LET end_time == Get(game, "end_time", Null)
        hour_of_day == HourOf(end_time)
        current_result == consecutive_get_game_result(game, username)
        counted ==
          IF Truthy(st.previous_result) /\ st.previous_hour = hour_of_day
          THEN IF st.previous_result = "win"
               THEN [st EXCEPT !.total_win_streaks = @ + 1,
                               !.win_after_win =
                                   IF current_result = "win" THEN @ + 1 ELSE @]
               ELSE IF st.previous_result = "loss"
               THEN [st EXCEPT !.total_loss_streaks = @ + 1,
                               !.loss_after_loss =
                                   IF current_result = "loss" THEN @ + 1 ELSE @]
               ELSE st
          ELSE st
    IN  IF Falsy(end_time) THEN st
        ELSE IF ~Truthy(current_result) THEN st
        ELSE [counted EXCEPT !.previous_result = current_result,
                             !.previous_hour = hour_of_day]

RECURSIVE streaks_loop(_, _, _)
streaks_loop(gs, username, st) ==
    IF gs = <<>> THEN st
    ELSE streaks_loop(Tail(gs), username, streaks_step(st, Head(gs), username))

\* the counters of analyze_streaks once its loop is over
streaks_counts(games_sorted, username) ==
    streaks_loop(games_sorted, username,
                 [win_after_win |-> 0, loss_after_loss |-> 0,
                  total_win_streaks |-> 0, total_loss_streaks |-> 0,
                  previous_result |-> None, previous_hour |-> Null])

\* analyze_streaks: (win_probability, loss_probability)
analyze_streaks(games_sorted, username) ==
    LET st == streaks_counts(games_sorted, username)
    IN  [win_probability |->
             calculate_probability(st.win_after_win, st.total_win_streaks),
         loss_probability |->
             calculate_probability(st.loss_after_loss, st.total_loss_streaks)]

\* the loop body of analyze_sequences looking at the following game only
\* when it ends in the same hour as the pair
sequences_step_same_hour_next(st, games_sorted, i, username) ==
    LET game == games_sorted[i]
        end_time == Get(game, "end_time", Null)
        hour_of_day == HourOf(end_time)
        current_result == consecutive_get_game_result(game, username)
        next_game_result ==
          IF i + 1 <= Len(games_sorted)
             /\ HourOf(Get(games_sorted[i + 1], "end_time", Null)) = hour_of_day
          THEN consecutive_get_game_result(games_sorted[i + 1], username)
          ELSE None
        counted ==
          IF Truthy(st.previous_result) /\ st.previous_hour = hour_of_day
          THEN IF st.previous_result = "win" /\ current_result = "loss"
               THEN [st EXCEPT !.total_win_loss = @ + 1,
                               !.win_after_win_loss =
                                   IF next_game_result = "win" THEN @ + 1 ELSE @]
               ELSE IF st.previous_result = "loss" /\ current_result = "win"
               THEN [st EXCEPT !.total_loss_win = @ + 1,
                               !.win_after_loss_win =
                                   IF next_game_result = "win" THEN @ + 1 ELSE @]
               ELSE st
          ELSE st
    IN  IF Falsy(end_time) THEN st
        ELSE IF ~Truthy(current_result) THEN st
        ELSE [counted EXCEPT !.previous_result = current_result,
                             !.previous_hour = hour_of_day]

\* the body of the loop of analyze_sequences for the game at index i
sequences_step(st, games_sorted, i, username) ==
    LET game == games_sorted[i]
        end_time == Get(game, "end_time", Null)
        hour_of_day == HourOf(end_time)
        current_result == consecutive_get_game_result(game, username)
        next_game_result ==
          IF i + 1 <= Len(games_sorted)
          THEN consecutive_get_game_result(games_sorted[i + 1], username)
          ELSE None
        counted ==
          IF Truthy(st.previous_result) /\ st.previous_hour = hour_of_day
          THEN IF st.previous_result = "win" /\ current_result = "loss"
               THEN [st EXCEPT !.total_win_loss = @ + 1,
                               !.win_after_win_loss =
                                   IF next_game_result = "win" THEN @ + 1 ELSE @]
               ELSE IF st.previous_result = "loss" /\ current_result = "win"
               THEN [st EXCEPT !.total_loss_win = @ + 1,
                               !.win_after_loss_win =
                                   IF next_game_result = "win" THEN @ + 1 ELSE @]
               ELSE st
          ELSE st
    IN  IF Falsy(end_time) THEN st
        ELSE IF ~Truthy(current_result) THEN st
        ELSE [counted EXCEPT !.previous_result = current_result,
                             !.previous_hour = hour_of_day]

RECURSIVE sequences_loop(_, _, _, _)
sequences_loop(games_sorted, i, username, st) ==
    IF i > Len(games_sorted) THEN st
    ELSE sequences_loop(games_sorted, i + 1, username,
                        sequences_step(st, games_sorted, i, username))

\* the counters of analyze_sequences once its loop is over
sequences_counts(games_sorted, username) ==
    sequences_loop(games_sorted, 1, username,
                   [win_after_win_loss |-> 0, win_after_loss_win |-> 0,
                    total_win_loss |-> 0, total_loss_win |-> 0,
                    previous_result |-> None, previous_hour |-> Null])

\* analyze_sequences: (win_after_win_loss_probability, win_after_loss_win_probability)
analyze_sequences(games_sorted, username) ==
    LET st == sequences_counts(games_sorted, username)
    IN  [win_after_win_loss_probability |->
             calculate_probability(st.win_after_win_loss, st.total_win_loss),
         win_after_loss_win_probability |->
             calculate_probability(st.win_after_loss_win, st.total_loss_win)]

-----------------------------------------------------------------------------
(* archive/daily_proba.py: games per day *)

RECURSIVE games_per_day_loop(_, _)
games_per_day_loop(gs, games_per_day) ==
    IF gs = <<>> THEN games_per_day
    ELSE LET end_time == Get(Head(gs), "end_time", Null)
         IN  games_per_day_loop(Tail(gs),
                 IF ~Falsy(end_time) THEN IncGames(games_per_day, DateOf(end_time))
                 ELSE games_per_day)

\* statistics.median: raises StatisticsError on no data
median(values) ==
    LET srt == SortPairs([i \in DOMAIN values |-> [key |-> values[i], game |-> values[i]]])
        n == Len(values)
    IN  IF n = 0 THEN Raise("StatisticsError")
        ELSE IF n % 2 = 1 THEN Ok(Float(srt[(n + 1) \div 2].key, 1))
        ELSE Ok(Float(srt[n \div 2].key + srt[n \div 2 + 1].key, 2))

\* calculate_average_and_median_games
calculate_average_and_median_games(gs) ==
    LET games_per_day == games_per_day_loop(gs, <<>>)
        unique_days == {games_per_day[i].key : i \in DOMAIN games_per_day}
        average_games ==
          IF unique_days # {} THEN TrueDiv(Len(gs), Cardinality(unique_days)) ELSE Zero
        median_games == median([i \in DOMAIN games_per_day |-> games_per_day[i].n])
    IN  IF median_games.status = "raise" THEN median_games
        ELSE Ok([average_games |-> average_games, median_games |-> median_games.value])

-----------------------------------------------------------------------------
(* utils/probability_analysis.py and archive/daily_proba.py: win            *)
(* probability by position of a game in a day                               *)

\* the dict comprehension of both functions: a value for every position
\* that has a win
PositionProbabilities(st) ==
    [pos \in DOMAIN st.wins_by_position |->
        Percent(st.wins_by_position[pos], st.games_by_position[pos])]

PositionStart ==
    [wins_by_position |-> EmptyDict, games_by_position |-> EmptyDict,
     current_day |-> Null, game_position |-> 1]

\* one round of the loop of calculate_win_probability
win_probability_step(st, game, username) ==
    LET end_time == Get(game, "end_time", Null)
        result == get_game_result(game, username)
    IN  IF Falsy(end_time) THEN st
        ELSE [st EXCEPT
                !.wins_by_position =
                    IF result = "win" THEN IncCounter(@, st.game_position) ELSE @,
                !.games_by_position = IncCounter(@, st.game_position),
                !.game_position = @ + 1]

RECURSIVE win_probability_loop(_, _, _)
win_probability_loop(gs, username, st) ==
    IF gs = <<>> THEN st
    ELSE win_probability_loop(Tail(gs), username,
                              win_probability_step(st, Head(gs), username))

\* utils/probability_analysis.py calculate_win_probability
calculate_win_probability(games_sorted, username) ==
    PositionProbabilities(win_probability_loop(games_sorted, username, PositionStart))

\* archive/daily_proba.py get_game_result: the raw result string of the
\* user's side
daily_proba_get_game_result(game, username) ==
    IF Get(Get(game, "white", EmptyDict), "username", None) = username
    THEN Get(Get(game, "white", EmptyDict), "result", None)
    ELSE IF Get(Get(game, "black", EmptyDict), "username", None) = username
    THEN Get(Get(game, "black", EmptyDict), "result", None)
    ELSE None

\* one round of the loop of calculate_win_probability_by_position
by_position_step(st, game, username) ==
    LET end_time == Get(game, "end_time", Null)
        end_date == DateOf(end_time)
        game_position == IF end_date # st.current_day THEN 1 ELSE st.game_position
        result == daily_proba_get_game_result(game, username)
    IN  IF Falsy(end_time) THEN st
        ELSE [wins_by_position |->
                  IF result = "win" THEN IncCounter(st.wins_by_position, game_position)
                  ELSE st.wins_by_position,
              games_by_position |-> IncCounter(st.games_by_position, game_position),
              current_day |-> end_date,
              game_position |-> game_position + 1]

RECURSIVE by_position_loop(_, _, _)
by_position_loop(gs, username, st) ==
    IF gs = <<>> THEN st
    ELSE by_position_loop(Tail(gs), username, by_position_step(st, Head(gs), username))

\* archive/daily_proba.py calculate_win_probability_by_position
calculate_win_probability_by_position(games_sorted, username) ==
    PositionProbabilities(by_position_loop(games_sorted, username, PositionStart))

-----------------------------------------------------------------------------
(* utils/tilt_detector.py *)

\* the body of the loop of detect_tilt_streaks for one game
tilt_step(st, game, username, tilt_streak_count) ==
    LET end_time == Get(game, "end_time", Null)
        result == get_game_result(game, username)
        start == IF st.current_streak = 0 THEN end_time ELSE st.streak_start_time
        streak == st.current_streak + 1
    IN  IF Falsy(end_time) THEN st
        ELSE IF result \in {"checkmated", "timeout", "resigned", "lose", "abandoned"}
        THEN IF streak >= tilt_streak_count
             THEN [tilt_occurrences |->
                       Append(st.tilt_occurrences,
                              [start_time |-> start, end_time |-> end_time,
                               streak_length |-> streak]),
                   current_streak |-> 0,
                   streak_start_time |-> start]
             ELSE [st EXCEPT !.current_streak = streak, !.streak_start_time = start]
        ELSE [st EXCEPT !.current_streak = 0]

RECURSIVE tilt_loop(_, _, _, _)
tilt_loop(gs, username, tilt_streak_count, st) ==
    IF gs = <<>> THEN st
    ELSE tilt_loop(Tail(gs), username, tilt_streak_count,
                   tilt_step(st, Head(gs), username, tilt_streak_count))

\* detect_tilt_streaks: the tilt occurrences
detect_tilt_streaks(gs, username, tilt_streak_count) ==
    LET games_sorted == sorted_end_time(gs)
    IN  IF games_sorted.status = "raise" THEN games_sorted
        ELSE Ok(tilt_loop(games_sorted.value, username, tilt_streak_count,
                          [tilt_occurrences |-> <<>>, current_streak |-> 0,
                           streak_start_time |-> Null]).tilt_occurrences)

-----------------------------------------------------------------------------
(* archive/tiltor.py: tilt streaks within a time gap *)

\* get_game_result of archive/tiltor.py: the raw result string of the side
\* the username plays
tiltor_get_game_result(game, username) ==
    IF Get(Get(game, "white", EmptyDict), "username", None) = username
    THEN Get(Get(game, "white", EmptyDict), "result", None)
    ELSE IF Get(Get(game, "black", EmptyDict), "username", None) = username
    THEN Get(Get(game, "black", EmptyDict), "result", None)
    ELSE None

\* the body of the loop of detect_tilt_streaks for one game
tiltor_step(st, game, username, tilt_streak_count, tilt_time_gap) ==
    LET end_time == Get(game, "end_time", Null)
        result == tiltor_get_game_result(game, username)
        within == end_time - st.streak_start_time <= tilt_time_gap
        start == IF st.current_streak = 0 \/ ~within THEN end_time
                 ELSE st.streak_start_time
        streak == IF st.current_streak = 0 \/ ~within THEN 1
                  ELSE st.current_streak + 1
    IN  IF Falsy(end_time) THEN st
        ELSE IF result \in {"checkmated", "timeout", "resigned", "lose", "abandoned"}
        THEN IF streak >= tilt_streak_count
             THEN [tilt_occurrences |->
                       Append(st.tilt_occurrences,
                              [tilt_start_time |-> start, tilt_end_time |-> end_time,
                               streak_length |-> streak]),
                   current_streak |-> 0,
                   streak_start_time |-> start]
             ELSE [st EXCEPT !.current_streak = streak, !.streak_start_time = start]
        ELSE [st EXCEPT !.current_streak = 0]

RECURSIVE tiltor_loop(_, _, _, _, _)
tiltor_loop(gs, username, tilt_streak_count, tilt_time_gap, st) ==
    IF gs = <<>> THEN st
    ELSE tiltor_loop(Tail(gs), username, tilt_streak_count, tilt_time_gap,
                     tiltor_step(st, Head(gs), username, tilt_streak_count, tilt_time_gap))

\* TILT_TIME_GAP: three hours
TILT_TIME_GAP == 3600 * 3

\* detect_tilt_streaks of archive/tiltor.py: the tilt occurrences
tiltor_detect_tilt_streaks(gs, username, tilt_streak_count, tilt_time_gap) ==
    LET games_sorted == sorted_end_time(gs)
    IN  IF games_sorted.status = "raise" THEN games_sorted
        ELSE Ok(tiltor_loop(games_sorted.value, username, tilt_streak_count,
                            tilt_time_gap,
                            [tilt_occurrences |-> <<>>, current_streak |-> 0,
                             streak_start_time |-> Null]).tilt_occurrences)

-----------------------------------------------------------------------------
(* stats_app/views.py and chess_analyzer.py: which side the player is *)

\* process_game: the colour the view gives the player (None: no colour)
process_game(game, username) ==
    LET white_player == Get(game, "white", EmptyDict)
        black_player == Get(game, "black", EmptyDict)
        white_username == Strip(Get(white_player, "username", ""))
        black_username == Strip(Get(black_player, "username", ""))
    IN  IF Lower(white_username) = Lower(username)
        THEN [player_color |-> "white", opponent_username |-> black_username]
        ELSE IF Lower(black_username) = Lower(username)
        THEN [player_color |-> "black", opponent_username |-> white_username]
        ELSE [player_color |-> None, opponent_username |-> None]

\* ChessGameAnalyzer.get_player_result: '' on a KeyError
get_player_result(game) ==
    IF "white" \notin DOMAIN game \/ "username" \notin DOMAIN game.white THEN ""
    ELSE IF Lower(game.white.username) = "kalel1130"
    THEN Get(game.white, "result", "")
    ELSE IF "black" \notin DOMAIN game THEN ""
    ELSE Get(game.black, "result", "")

RECURSIVE get_statistics_loop(_, _)
get_statistics_loop(gs, stats) ==
    IF gs = <<>> THEN stats
    ELSE LET result == get_player_result(Head(gs))
         IN  get_statistics_loop(Tail(gs),
                 IF result = "win" THEN [stats EXCEPT !.wins = @ + 1]
                 ELSE IF result \in {"timeout", "checkmated", "resigned"}
                 THEN [stats EXCEPT !.losses = @ + 1]
                 ELSE [stats EXCEPT !.draws = @ + 1])

\* ChessGameAnalyzer.get_statistics: the result counts (the records of the
\* model hold no rating, accuracy, eco or pgn, so the rest stays empty)
get_statistics(gs) ==
    get_statistics_loop(gs, [total_games |-> Len(gs), wins |-> 0, losses |-> 0, draws |-> 0])

-----------------------------------------------------------------------------
(* app.py: the report pipeline *)

\* generate_stacked_bar_chart: report_df['Month'] on a DataFrame built from
\* no row (it has no column) raises KeyError
generate_stacked_bar_chart(report_df) ==
    IF report_df = <<>> THEN Raise("KeyError") ELSE Ok("figure")

\* get_monthly_report, from the point where the records are at hand.
\* cached: the day's data file exists.  The monthly table is the one of
\* archive/main.py, the totals are those of analyze_games.
get_monthly_report(gs, username, cached) ==
    LET games_sorted == sorted_end_time(gs)
        report_df == generate_report(main_analyze_games(gs, username).month)
        totals == analyze_games(gs, username).value
        avg_med == calculate_average_and_median_games(gs)
        streaks == analyze_streaks(games_sorted.value, username)
        sequences == analyze_sequences(games_sorted.value, username)
        chart == generate_stacked_bar_chart(report_df)
    IN  IF ~cached /\ gs = <<>>
        THEN Ok([message |-> "No data found for the specified username."])
        ELSE IF games_sorted.status = "raise" THEN games_sorted
        ELSE IF avg_med.status = "raise" THEN avg_med
        ELSE IF chart.status = "raise" THEN chart
        ELSE Ok([report_df |-> report_df,
                 summary |->
                   [total_games |-> totals.total_games,
                    total_wins |-> totals.wins,
                    total_losses |-> totals.losses,
                    total_timeouts |-> totals.timeouts,
                    average_games |-> avg_med.value.average_games,
                    median_games |-> avg_med.value.median_games,
                    win_prob |-> streaks.win_probability,
                    loss_prob |-> streaks.loss_probability,
                    win_after_wl_prob |-> sequences.win_after_win_loss_probability,
                    win_after_lw_prob |-> sequences.win_after_loss_win_probability]])

-----------------------------------------------------------------------------
(* Move timing: the clock annotations of a game's notation text             *)
(*                                                                          *)
(* The moves text of a game is the sequence of its plies, White's at the    *)
(* odd positions, each with the text of its [%clk ...] annotation, as in    *)
(*   1. e4 {[%clk 0:05:00]} 1... e5 {[%clk 0:05:00]} 2. Nf3 {[%clk ...]}    *)
(* A clock text is kept as the fields that split(':') gives, the last one   *)
(* with its decimal digit when the text has a '.'.  A number of seconds is  *)
(* kept exact as a number of tenths of a second.                            *)

\* the clock text h:mm:ss, or h:mm:ss.d
Clock3(h, m, s, dot, d) == [parts |-> <<h, m, s>>, dot |-> dot, tenths |-> d]

\* the clock text m:ss, or m:ss.d
Clock2(m, s, dot, d) == [parts |-> <<m, s>>, dot |-> dot, tenths |-> d]

ClockTexts ==
    { Clock3(0, 5, 0, FALSE, 0),     \* 0:05:00
      Clock3(0, 4, 50, FALSE, 0),    \* 0:04:50
      Clock3(0, 4, 48, FALSE, 0),    \* 0:04:48
      Clock3(0, 4, 47, TRUE, 5),     \* 0:04:47.5
      Clock2(5, 0, TRUE, 0),         \* 5:00.0
      Clock2(4, 50, TRUE, 5),        \* 4:50.5
      Clock2(4, 30, TRUE, 0) }       \* 4:30.0

\* the clock texts of the plies after the first MaxVaried ones
CoreClockTexts ==
    { Clock3(0, 4, 50, FALSE, 0),    \* 0:04:50
      Clock3(0, 4, 48, FALSE, 0),    \* 0:04:48
      Clock2(4, 50, TRUE, 5),        \* 4:50.5
      Clock2(4, 30, TRUE, 0) }       \* 4:30.0

\* the moves of the notation text, by ply
SanMoves == <<"e4", "e5", "Nf3", "Nc6", "Bb5", "a6", "Ba4", "Nf6">>

\* int(parts[k]); ValueError when the field has a decimal part
IntField(clock, k) ==
    IF k = Len(clock.parts) /\ clock.dot THEN Raise("ValueError")
    ELSE Ok(clock.parts[k])

\* float(parts[k]), in tenths
FloatField(clock, k) ==
    clock.parts[k] * 10 + (IF k = Len(clock.parts) /\ clock.dot THEN clock.tenths ELSE 0)

\* ChessGameAnalyzer.convert_clock_to_seconds: the first field as minutes,
\* the second as seconds, whatever the number of fields
convert_clock_to_seconds(time_str) ==
    LET minutes == IntField(time_str, 1)
    IN  IF minutes.status = "raise" THEN minutes
        ELSE Ok(minutes.value * 600 + FloatField(time_str, 2))

\* chess_time_visu.py clock_to_seconds: 0 on any error
clock_to_seconds(clock) ==
    LET parts == clock.parts
    IN  IF Len(parts) = 3
        THEN IF IntField(clock, 1).status = "raise" \/ IntField(clock, 2).status = "raise"
             THEN 0
             ELSE parts[1] * 36000 + parts[2] * 600 + FloatField(clock, 3)
        ELSE IF Len(parts) = 2
        THEN IF IntField(clock, 1).status = "raise" THEN 0
             ELSE parts[1] * 600 + FloatField(clock, 2)
        ELSE 0

\* int(seconds) of a float: the whole seconds, in tenths
IntOfFloat(x) == (x \div 10) * 10

\* time_mgmt.py clock_to_seconds: the seconds cut to an integer; 0 on a
\* ValueError
time_mgmt_clock_to_seconds(clock) ==
    LET parts == clock.parts
    IN  IF Len(parts) = 3
        THEN IF IntField(clock, 1).status = "raise" \/ IntField(clock, 2).status = "raise"
             THEN 0
             ELSE parts[1] * 36000 + parts[2] * 600 + IntOfFloat(FloatField(clock, 3))
        ELSE IF Len(parts) = 2
        THEN IF IntField(clock, 1).status = "raise" THEN 0
             ELSE parts[1] * 600 + IntOfFloat(FloatField(clock, 2))
        ELSE 0

\* the full moves of a moves text: White's ply and, unless the text ends
\* with White's ply, Black's
NumEntries(moves) == (Len(moves) + 1) \div 2

\* group(5) of a match whose Black part did not match
NoClock == [parts |-> <<>>, dot |-> FALSE, tenths |-> 0]

\* the text "n... san" that precedes Black's clock annotation
BlackText(n, san) == ToString(n) \o "... " \o san

(* chess_analyzer.py: ChessGameAnalyzer.get_move_timing_analysis *)

\* the clock group (\d+:\d+\.\d+) of move_pattern: two fields, the second
\* with a decimal part
AnalyzerClockPattern(clock) == Len(clock.parts) = 2 /\ clock.dot

\* re.finditer(move_pattern, moves_text): one match for each full move whose
\* White clock fits the pattern, with Black's ply when its clock fits too
analyzer_matches(moves) ==
    SelectSeq([j \in 1..NumEntries(moves) |->
                 LET black == 2 * j <= Len(moves) /\ AnalyzerClockPattern(moves[2 * j])
                 IN  [move_num |-> j,
                      matched |-> AnalyzerClockPattern(moves[2 * j - 1]),
                      white_move |-> SanMoves[2 * j - 1],
                      white_clock |-> moves[2 * j - 1],
                      black_move |-> IF black THEN BlackText(j, SanMoves[2 * j]) ELSE None,
                      black_clock |-> IF black THEN moves[2 * j] ELSE NoClock]],
              LAMBDA m : m.matched)

\* the body of the loop over matches[1:]
move_timing_step(st, match, is_white) ==
    LET white_time == convert_clock_to_seconds(match.white_clock).value
        white_spent == st.last_white_time - white_time
        st1 == [st EXCEPT !.last_white_time = white_time,
                          !.move_times =
                              IF is_white /\ white_spent > 0
                              THEN Append(@, [move_number |-> match.move_num,
                                              time_spent |-> white_spent,
                                              move |-> match.white_move,
                                              remaining_time |-> white_time,
                                              color |-> "White"])
                              ELSE @]
        black_time == convert_clock_to_seconds(match.black_clock).value
        black_spent == st.last_black_time - black_time
    IN  IF match.black_move = None THEN st1
        ELSE [st1 EXCEPT !.last_black_time = black_time,
                         !.move_times =
                             IF ~is_white /\ black_spent > 0
                             THEN Append(@, [move_number |-> match.move_num,
                                             time_spent |-> black_spent,
                                             move |-> match.black_move,
                                             remaining_time |-> black_time,
                                             color |-> "Black"])
                             ELSE @]

RECURSIVE move_timing_loop(_, _, _)
move_timing_loop(matches, is_white, st) ==
    IF matches = <<>> THEN st
    ELSE move_timing_loop(Tail(matches), is_white,
                          move_timing_step(st, Head(matches), is_white))

\* sorted(entries, key=lambda x: x['time_spent']): without reverse=True, the
\* shortest first
SortedByTimeSpentAscending(entries) ==
    LET srt == SortPairs([i \in DOMAIN entries |->
                            [key |-> entries[i].time_spent, game |-> entries[i]]])
    IN  [i \in DOMAIN srt |-> srt[i].game]

\* sorted(entries, key=lambda x: x['time_spent'], reverse=True): the longest
\* first, entries of equal time in their order
SortedByTimeSpent(entries) ==
    LET srt == SortPairs([i \in DOMAIN entries |->
                            [key |-> 0 - entries[i].time_spent, game |-> entries[i]]])
    IN  [i \in DOMAIN srt |-> srt[i].game]

\* a pgn text, as split('\n\n') cuts it: the headers alone, or the headers
\* and the moves text
Pgn(sections, moves) == [sections |-> sections, moves |-> moves]

\* a pgn field that holds None (JSON null)
PgnNone == [none |-> TRUE]

\* the try body of get_move_timing_analysis: the entries it returns, or the
\* exception that leaves it
move_timing_try(game) ==
    LET is_white == Lower(game.white.username) = "kalel1130"
        matches == analyzer_matches(game.pgn.moves)
        initial_white_time == convert_clock_to_seconds(matches[1].white_clock).value
        initial_black_time ==
          IF matches[1].black_move # None
          THEN convert_clock_to_seconds(matches[1].black_clock).value
          ELSE initial_white_time
        st == move_timing_loop(Tail(matches), is_white,
                               [last_white_time |-> initial_white_time,
                                last_black_time |-> initial_black_time,
                                move_times |-> <<>>])
    IN  IF "white" \notin DOMAIN game \/ "username" \notin DOMAIN game.white
        THEN Raise("KeyError")
        ELSE IF game.white.username = None THEN Raise("AttributeError")
        ELSE IF "pgn" \notin DOMAIN game THEN Ok(<<>>)
        ELSE IF "none" \in DOMAIN game.pgn THEN Raise("AttributeError")
        ELSE IF game.pgn.sections < 2 THEN Ok(<<>>)
        ELSE IF matches = <<>> THEN Ok(<<>>)
        ELSE Ok(SortedByTimeSpent(st.move_times))

\* except Exception: only a KeyError is caught
move_timing_except_key_error(r) ==
    IF r.status = "raise" /\ r.exc = "KeyError" THEN Ok(<<>>) ELSE r

\* except Exception: whatever exception leaves the try body, the function
\* returns []
move_timing_except(r) ==
    IF r.status = "raise" THEN Ok(<<>>) ELSE r

\* get_move_timing_analysis of a game
get_move_timing_analysis(game) == move_timing_except(move_timing_try(game))

\* sorted(self.games, key=lambda x: x['end_time'], reverse=True): the latest
\* game first, games of equal end_time in their order
sorted_recent_first(gs) ==
    LET srt == SortPairs([i \in DOMAIN gs |->
                            [key |-> 0 - gs[i].end_time, game |-> gs[i]]])
    IN  [i \in DOMAIN srt |-> srt[i].game]

\* s[:n]
Prefix(s, n) == SubSeq(s, 1, IF Len(s) < n THEN Len(s) ELSE n)

RECURSIVE SumTimeSpent(_)
SumTimeSpent(move_times) ==
    IF move_times = <<>> THEN 0
    ELSE Head(move_times).time_spent + SumTimeSpent(Tail(move_times))

\* game['eco'].split('/')[-1]: the last segment of the opening's address
OpeningOf(game) ==
    IF "eco" \in DOMAIN game THEN game.eco[Len(game.eco)] ELSE "Unknown Opening"

\* the body of the loop of analyze_recent_game_timing: the analysis of one
\* game is appended when the game has move times
recent_timing_step(acc, game, moves_per_game) ==
    LET move_times == get_move_timing_analysis(game)
    IN  IF acc.status = "raise" THEN acc
        ELSE IF move_times.status = "raise" THEN move_times
        ELSE IF move_times.value = <<>> THEN acc
        ELSE IF "url" \notin DOMAIN game THEN Raise("KeyError")
        ELSE Ok(Append(acc.value,
                 [date |-> DateTimeOf(game.end_time),
                  url |-> game.url,
                  opening |-> OpeningOf(game),
                  result |-> get_player_result(game),
                  time_control |-> Get(game, "time_control", "Unknown"),
                  longest_moves |-> Prefix(move_times.value, moves_per_game),
                  average_time_per_move |->
                      TrueDiv(SumTimeSpent(move_times.value), Len(move_times.value))]))

RECURSIVE recent_timing_loop(_, _, _)
recent_timing_loop(recent_games, moves_per_game, acc) ==
    IF recent_games = <<>> THEN acc
    ELSE recent_timing_loop(Tail(recent_games), moves_per_game,
                            recent_timing_step(acc, Head(recent_games), moves_per_game))

\* ChessGameAnalyzer.analyze_recent_game_timing on the games of the store
analyze_recent_game_timing(gs, num_games, moves_per_game) ==
    IF \E i \in DOMAIN gs : "end_time" \notin DOMAIN gs[i] THEN Raise("KeyError")
    ELSE IF SortRaises([i \in DOMAIN gs |-> gs[i].end_time]) THEN Raise("TypeError")
    ELSE recent_timing_loop(Prefix(sorted_recent_first(gs), num_games),
                            moves_per_game, Ok(<<>>))

(* chess_time_visu.py: process_moves *)

\* the body of the loop over move_pattern.finditer(moves_str); the pattern
\* takes a clock of any form, so every full move of the text is a match
process_moves_step(st, moves, j, player_is_white) ==
    LET white_time == clock_to_seconds(moves[2 * j - 1])
        black_clock == 2 * j <= Len(moves)
        black_time == IF black_clock THEN clock_to_seconds(moves[2 * j]) ELSE Null
        skipped == ~player_is_white /\ ~black_clock
        current_time == IF player_is_white THEN white_time ELSE black_time
        move == IF player_is_white THEN SanMoves[2 * j - 1] ELSE SanMoves[2 * j]
        move_str == IF player_is_white THEN ToString(j) \o ". " \o move
                    ELSE ToString(j) \o "... " \o move
        time_spent == st.prev_time - current_time
    IN  IF skipped THEN st
        ELSE [prev_time |-> current_time,
              player_moves |->
                  IF st.prev_time # Null /\ time_spent > 0
                  THEN Append(st.player_moves,
                              [move_str |-> move_str, move |-> move,
                               current_time |-> current_time, time_spent |-> time_spent])
                  ELSE st.player_moves]

RECURSIVE process_moves_loop(_, _, _, _)
process_moves_loop(moves, j, player_is_white, st) ==
    IF j > NumEntries(moves) THEN st
    ELSE process_moves_loop(moves, j + 1, player_is_white,
                            process_moves_step(st, moves, j, player_is_white))

\* process_moves(moves_str, player_is_white, time_control): the player's
\* moves with the time spent on each
process_moves(moves_str, player_is_white, time_control) ==
    process_moves_loop(moves_str, 1, player_is_white,
                       [prev_time |-> Null, player_moves |-> <<>>]).player_moves

(* time_mgmt.py: process_chess_data *)

\* the clock group (\d+:\d{2}:\d{2}(\.\d)?) of move_clock_pattern: three
\* fields
TimeMgmtClockPattern(clock) == Len(clock.parts) = 3

\* the time control strings of the model: "300", and "300+2", which is
\* neither an integer nor a fraction
TimeControls == {"300", "300+2"}

\* convert_time_control: 600 when the string cannot be converted
convert_time_control(time_control_str) ==
    IF time_control_str = "300" THEN 300 ELSE 600

\* the body of the loop over move_clock_pattern.finditer(moves) for the
\* full move j; the pattern asks for white space after White's part, which
\* the stripped text has only when Black's ply follows
time_mgmt_step(st, moves, j) ==
    LET matched == TimeMgmtClockPattern(moves[2 * j - 1]) /\ 2 * j <= Len(moves)
        white_time == time_mgmt_clock_to_seconds(moves[2 * j - 1])
        st1 == [st EXCEPT !.current_white_time = white_time,
                          !.white_moves =
                              Append(@, [move_number |-> j,
                                         move |-> SanMoves[2 * j - 1],
                                         clock |-> moves[2 * j - 1],
                                         time_spent |-> st.current_white_time - white_time])]
        black == TimeMgmtClockPattern(moves[2 * j])
        black_time == time_mgmt_clock_to_seconds(moves[2 * j])
    IN  IF ~matched THEN st
        ELSE IF ~black THEN st1
        ELSE [st1 EXCEPT !.current_black_time = black_time,
                         !.black_moves =
                             Append(@, [move_number |-> j,
                                        move |-> SanMoves[2 * j],
                                        clock |-> moves[2 * j],
                                        time_spent |-> st.current_black_time - black_time])]

RECURSIVE time_mgmt_loop(_, _, _)
time_mgmt_loop(moves, j, st) ==
    IF j > NumEntries(moves) THEN st
    ELSE time_mgmt_loop(moves, j + 1, time_mgmt_step(st, moves, j))

\* find_top_thinks: the top_n = 3 moves of longest time spent
find_top_thinks(moves) ==
    LET srt == SortedByTimeSpent(moves)
    IN  SubSeq(srt, 1, IF Len(srt) < 3 THEN Len(srt) ELSE 3)

\* process_chess_data for one game: its player_top_thinks
time_mgmt_process_chess_data(game, player_name) ==
    LET time_control == convert_time_control(game.time_control) * 10
        headers == Get(game, "headers", EmptyDict)
        player_is_white == Get(headers, "White", "") = player_name
        st == time_mgmt_loop(game.moves, 1,
                             [current_white_time |-> time_control,
                              current_black_time |-> time_control,
                              white_moves |-> <<>>, black_moves |-> <<>>])
        player_moves == IF player_is_white THEN st.white_moves ELSE st.black_moves
    IN  find_top_thinks(player_moves)

(* chess_time_visu.py: process_chess_data *)

\* determine_player_color(game_data, player_name): the colour of the player,
\* or an error message when the player is on neither side
determine_player_color(game_data, player_name) ==
    LET white_player == Get(Get(game_data, "white", EmptyDict), "username", "")
        black_player == Get(Get(game_data, "black", EmptyDict), "username", "")
    IN  IF DOMAIN Get(game_data, "white", EmptyDict) = {}
           \/ DOMAIN Get(game_data, "black", EmptyDict) = {}
        THEN [is_white |-> None, error |-> "Missing player data in game"]
        ELSE IF white_player = "" \/ black_player = ""
        THEN [is_white |-> None, error |-> "Missing username in player data"]
        ELSE IF player_name \notin {white_player, black_player}
        THEN [is_white |-> None, error |-> "Player not found in game"]
        ELSE [is_white |-> white_player = player_name, error |-> None]

\* move_str.split('.')[0]: the digits before the first '.' of "n. san" or
\* "n... san"
MoveNumberOf(move_str) ==
    CHOOSE n \in {ToString(j) : j \in DOMAIN SanMoves} :
       \E k \in DOMAIN SanMoves :
          move_str \in {n \o ". " \o SanMoves[k], n \o "... " \o SanMoves[k]}

\* chess_time_visu.py find_top_thinks(moves, top_n): the thinks of the
\* moves, the longest first, cut to top_n
time_visu_find_top_thinks(moves, top_n) ==
    LET thinks == [i \in DOMAIN moves |->
                     [move_number |-> MoveNumberOf(moves[i].move_str),
                      move |-> moves[i].move,
                      clock |-> moves[i].current_time,
                      time_spent |-> moves[i].time_spent]]
        srt == SortedByTimeSpent(thinks)
    IN  SubSeq(srt, 1, IF Len(srt) < top_n THEN Len(srt) ELSE top_n)

\* chess_time_visu.py process_chess_data for one game, up to its
\* player_top_thinks: a game whose colour cannot be determined is skipped;
\* convert_time_control is the same function in both scripts
time_visu_top_thinks(game, player_name) ==
    LET color == determine_player_color(game, player_name)
    IN  IF color.error # None THEN <<>>
        ELSE time_visu_find_top_thinks(
                 process_moves(game.moves, color.is_white,
                               convert_time_control(game.time_control)), 3)

-----------------------------------------------------------------------------
(* chess_analyzer.py: the store of ChessGameAnalyzer                        *)
(*                                                                          *)
(* The analyzer object holds self.games, the list of the game records, and  *)
(* writes it to its file with save_games.  A method that changes the object *)
(* gives the object after the call and what the call returned or raised.    *)

\* the games the data source can deliver, each under its own url; tcn is the
\* compressed move notation, a string kept as its characters
FetchedGames ==
    << [url |-> "game/1", end_time |-> T1, tcn |-> <<"m", "C", "0", "K", "g", "v">>,
        white |-> [username |-> USERNAME, result |-> "win", rating |-> 1500],
        black |-> [username |-> "Opponent", result |-> "checkmated", rating |-> 1480],
        accuracies |-> [white |-> 85, black |-> 70]],
       [url |-> "game/2", end_time |-> T2, tcn |-> <<"m", "C", "0", "K", "b", "s">>,
        white |-> [username |-> "Opponent", result |-> "win", rating |-> 1520],
        black |-> [username |-> USERNAME, result |-> "resigned", rating |-> 1492],
        accuracies |-> [white |-> 90, black |-> 60]],
       [url |-> "game/3", end_time |-> T3, tcn |-> <<"l", "B", "Z", "J">>,
        white |-> [username |-> USERNAME, result |-> "win", rating |-> 1510],
        black |-> [username |-> "Opponent", result |-> "timeout", rating |-> 1530]] >>

\* the file of the store: absent, holding the list json.dump wrote, or cut
\* short by a json.dump that raised after open(filename, 'w')
NoFile == [state |-> "absent"]
WrittenFile(content) == [state |-> "written", content |-> content]
TruncatedFile == [state |-> "truncated"]

\* load_games: the list of the file, [] when there is no file
load_games(file) ==
    IF file.state = "written" THEN file.content ELSE <<>>

\* json.dump can write a record unless it holds a datetime object
JsonSerializable(game) == "datetime" \notin DOMAIN game

\* save_games: json.dump(self.games) into the file opened for writing
save_games(self) ==
    IF \A i \in DOMAIN self.games : JsonSerializable(self.games[i])
    THEN [self |-> [self EXCEPT !.file = WrittenFile(self.games)], res |-> Ok(None)]
    ELSE [self |-> [self EXCEPT !.file = TruncatedFile], res |-> Raise("TypeError")]

\* the loop of add_games: a new game is appended when its url is not one of
\* existing_urls, the urls of the store before the call
RECURSIVE add_games_loop(_, _, _)
add_games_loop(stored, existing_urls, new_games) ==
    IF new_games = <<>> THEN stored
    ELSE IF Head(new_games).url \notin existing_urls
    THEN add_games_loop(Append(stored, Head(new_games)), existing_urls, Tail(new_games))
    ELSE add_games_loop(stored, existing_urls, Tail(new_games))

\* ChessGameAnalyzer.add_games
add_games(self, new_games) ==
    LET existing_urls == {self.games[i].url : i \in DOMAIN self.games}
    IN  save_games([self EXCEPT !.games = add_games_loop(@, existing_urls, new_games)])

\* get_player_accuracy: None when the record has no accuracies
get_player_accuracy(game) ==
    IF "white" \notin DOMAIN game \/ "username" \notin DOMAIN game.white
       \/ "accuracies" \notin DOMAIN game
    THEN Null
    ELSE LET color == IF Lower(game.white.username) = "kalel1130" THEN "white" ELSE "black"
         IN  Get(game.accuracies, color, Null)

\* get_player_elo: 0 when the record has no rating
get_player_elo(game) ==
    IF "white" \notin DOMAIN game \/ "username" \notin DOMAIN game.white THEN 0
    ELSE IF Lower(game.white.username) = "kalel1130"
    THEN Get(game.white, "rating", 0)
    ELSE IF "black" \notin DOMAIN game THEN 0
    ELSE Get(game.black, "rating", 0)

\* game['datetime'] = datetime.datetime.fromtimestamp(game['end_time']): the
\* record with its datetime key set; a datetime object is kept as the
\* instant it stands for
WithDatetime(game) ==
    [k \in DOMAIN game \cup {"datetime"} |->
       IF k = "datetime" THEN game.end_time ELSE game[k]]

\* the filters filter_games is called with; a date 'YYYY.MM.DD' is the
\* instant of its midnight
FilterKwargs ==
    { EmptyDict,
      [result |-> "win"],
      [min_elo |-> 1500, max_elo |-> 1505],
      [min_accuracy |-> 80],
      [max_accuracy |-> 80],
      [min_date |-> Timestamp(2024, 1, 16, 0, 0), max_date |-> Timestamp(2024, 2, 1, 0, 0)] }

\* one list comprehension of filter_games, applied when its key is given
FilterStep(gs, kwargs, key) ==
    IF key \notin DOMAIN kwargs THEN gs
    ELSE SelectSeq(gs, LAMBDA g :
            CASE key = "min_date" -> g.datetime >= kwargs.min_date
              [] key = "max_date" -> g.datetime <= kwargs.max_date
              [] key = "min_accuracy" ->
                   get_player_accuracy(g) # Null /\ get_player_accuracy(g) >= kwargs.min_accuracy
              [] key = "max_accuracy" ->
                   get_player_accuracy(g) # Null /\ get_player_accuracy(g) <= kwargs.max_accuracy
              [] key = "result" -> get_player_result(g) = kwargs.result
              [] key = "min_elo" -> get_player_elo(g) >= kwargs.min_elo
              [] key = "max_elo" -> get_player_elo(g) <= kwargs.max_elo)

\* ChessGameAnalyzer.filter_games: self.games.copy() copies the list, not the
\* records, so the datetime key is set on the records of the store
filter_games(self, kwargs) ==
    LET stored == [i \in DOMAIN self.games |-> WithDatetime(self.games[i])]
        f1 == FilterStep(stored, kwargs, "min_date")
        f2 == FilterStep(f1, kwargs, "max_date")
        f3 == FilterStep(f2, kwargs, "min_accuracy")
        f4 == FilterStep(f3, kwargs, "max_accuracy")
        f5 == FilterStep(f4, kwargs, "result")
        f6 == FilterStep(f5, kwargs, "min_elo")
        f7 == FilterStep(f6, kwargs, "max_elo")
    IN  [self |-> [self EXCEPT !.games = stored], res |-> Ok(f7)]

(* difflib.SequenceMatcher(None, a, b).ratio() *)

\* how far a[i..] and b[j..] agree, within a[..ahi] and b[..bhi]
RECURSIVE MatchLength(_, _, _, _, _, _)
MatchLength(a, b, i, j, ahi, bhi) ==
    IF i > ahi \/ j > bhi \/ a[i] # b[j] THEN 0
    ELSE 1 + MatchLength(a, b, i + 1, j + 1, ahi, bhi)

\* find_longest_match: the longest block a[i..i+k-1] = b[j..j+k-1] within
\* a[alo..ahi] and b[blo..bhi]; of the longest, the one that starts earliest
\* in a, and of those the one that starts earliest in b
find_longest_match(a, b, alo, ahi, blo, bhi) ==
    LET starts == (alo..ahi) \X (blo..bhi)
        k == IF starts = {} THEN 0
             ELSE CHOOSE n \in 0..Len(a) :
                    /\ \E s \in starts : MatchLength(a, b, s[1], s[2], ahi, bhi) = n
                    /\ \A s \in starts : MatchLength(a, b, s[1], s[2], ahi, bhi) <= n
        best == {s \in starts : MatchLength(a, b, s[1], s[2], ahi, bhi) = k}
        i == CHOOSE x \in alo..ahi :
                /\ \E s \in best : s[1] = x
                /\ \A s \in best : s[1] >= x
        j == CHOOSE y \in blo..bhi :
                /\ <<i, y>> \in best
                /\ \A s \in best : s[1] = i => s[2] >= y
    IN  IF k = 0 THEN [i |-> alo, j |-> blo, size |-> 0]
        ELSE [i |-> i, j |-> j, size |-> k]

\* get_matching_blocks: the characters matched by the longest block and, in
\* turn, by the pieces on its left and on its right
RECURSIVE Matches(_, _, _, _, _, _)
Matches(a, b, alo, ahi, blo, bhi) ==
    LET m == find_longest_match(a, b, alo, ahi, blo, bhi)
    IN  IF alo > ahi \/ blo > bhi \/ m.size = 0 THEN 0
        ELSE m.size + Matches(a, b, alo, m.i - 1, blo, m.j - 1)
                    + Matches(a, b, m.i + m.size, ahi, m.j + m.size, bhi)

\* ratio(): 2.0 * matches / (len(a) + len(b)), 1.0 for two empty strings
SequenceMatcherRatio(a, b) ==
    IF Len(a) + Len(b) = 0 THEN Float(1, 1)
    ELSE Float(2 * Matches(a, b, 1, Len(a), 1, Len(b)), Len(a) + Len(b))

\* x >= y on floats
FloatGeq(x, y) == x.num * y.den >= y.num * x.den

\* sorted(similar_games, key=lambda x: x['similarity'], reverse=True): the
\* most similar first, games of equal similarity in their order
RECURSIVE InsertBySimilarity(_, _)
InsertBySimilarity(s, g) ==
    IF s = <<>> THEN <<g>>
    ELSE IF FloatGeq(Head(s).similarity, g.similarity)
    THEN <<Head(s)>> \o InsertBySimilarity(Tail(s), g)
    ELSE <<g>> \o s

RECURSIVE SortedBySimilarity(_)
SortedBySimilarity(s) ==
    IF s = <<>> THEN <<>>
    ELSE InsertBySimilarity(SortedBySimilarity(SubSeq(s, 1, Len(s) - 1)), s[Len(s)])

\* the game of the store as the loop of find_similar_games leaves it: with
\* its similarity key set when it is similar enough to the target
WithSimilarity(game, game_url, target_tcn, min_similarity) ==
    LET similarity == SequenceMatcherRatio(target_tcn, game.tcn)
    IN  IF game.url # game_url /\ "tcn" \in DOMAIN game
           /\ FloatGeq(similarity, min_similarity)
        THEN [k \in DOMAIN game \cup {"similarity"} |->
                IF k = "similarity" THEN similarity ELSE game[k]]
        ELSE game

\* ChessGameAnalyzer.find_similar_games: the similarity key is set on the
\* records of the store
find_similar_games(self, game_url, min_similarity) ==
    LET found == {i \in DOMAIN self.games : self.games[i].url = game_url}
        target_game == self.games[CHOOSE i \in found : \A j \in found : i <= j]
        target_tcn == Get(target_game, "tcn", <<>>)
        stored == [i \in DOMAIN self.games |->
                     WithSimilarity(self.games[i], game_url, target_tcn, min_similarity)]
        similar_games == SelectSeq(stored, LAMBDA g :
                            /\ g.url # game_url
                            /\ "tcn" \in DOMAIN g
                            /\ FloatGeq(SequenceMatcherRatio(target_tcn, g.tcn),
                                        min_similarity))
    IN  IF found = {} THEN [self |-> self, res |-> Ok(<<>>)]
        ELSE IF target_tcn = <<>> THEN [self |-> self, res |-> Ok(<<>>)]
        ELSE [self |-> [self EXCEPT !.games = stored],
              res |-> Ok(SortedBySimilarity(similar_games))]

-----------------------------------------------------------------------------
(* chess_data_updater.py: ChessDataUpdater                                  *)

\* what one requests.get followed by raise_for_status can give: a response,
\* or an exception of the requests library
AttemptOutcomes == {"ok", "HTTPError", "ConnectionError"}

\* the loop of make_request from the given attempt on (attempts count from
\* 0); outcomes[k] is what the k-th GET gives.  The value is the number of
\* GETs made and what the call returns or raises; a loop that ends without
\* return gives None
RECURSIVE make_request_loop(_, _, _)
make_request_loop(outcomes, retries, attempt) ==
    IF attempt >= retries THEN [gets |-> attempt, res |-> Ok(None)]
    ELSE IF outcomes[attempt + 1] = "ok"
    THEN [gets |-> attempt + 1, res |-> Ok([response_of |-> attempt + 1])]
    ELSE IF attempt = retries - 1
    THEN [gets |-> attempt + 1, res |-> Raise([exc |-> outcomes[attempt + 1],
                                                attempt |-> attempt + 1])]
    ELSE make_request_loop(outcomes, retries, attempt + 1)

\* make_request giving up at the first failed attempt
make_request_no_retry(outcomes, retries) ==
    make_request_loop(outcomes, IF retries > 1 THEN 1 ELSE retries, 0)

\* ChessDataUpdater.make_request(url, retries)
make_request(outcomes, retries) == make_request_loop(outcomes, retries, 0)

\* the monthly archives of the site, oldest first, and the games each of
\* them lists (by position in FetchedGames): those of January 2024 and the
\* one of February 2024
SiteArchives ==
    << [url |-> "games/2024/01", listed |-> <<1, 2>>],
       [url |-> "games/2024/02", listed |-> <<3>>] >>

\* what the site serves when the player has finished the first `finished`
\* of the games: the archives that list a game so far, and the games of an
\* archive so far
ServedArchives(finished) ==
    LET open == SelectSeq(SiteArchives, LAMBDA a : a.listed[1] <= finished)
    IN  [k \in DOMAIN open |-> open[k].url]

ServedGames(archive_url, finished) ==
    LET archive == CHOOSE a \in Range(SiteArchives) : a.url = archive_url
        listed == SelectSeq(archive.listed, LAMBDA i : i <= finished)
    IN  [k \in DOMAIN listed |-> FetchedGames[listed[k]]]

\* a request with the default retries = 3: the url is served, or every
\* attempt on it fails
Fetch(url, failing) ==
    make_request(IF url \in failing THEN <<"ConnectionError", "HTTPError", "ConnectionError">>
                 ELSE <<"ok">>, 3)

\* get_correct_username_case: the username of the profile, the given one
\* when the request fails
get_correct_username_case(username, failing) ==
    IF Fetch("profile", failing).res.status = "ok" THEN USERNAME ELSE username

\* get_archives_urls: [] when the request fails; a response without the key
\* 'archives' raises KeyError, which the method does not catch
get_archives_urls(username, finished, failing) ==
    LET correct_username == get_correct_username_case(username, failing)
    IN  IF Fetch("archives", failing).res.status # "ok" THEN Ok(<<>>)
        ELSE IF "malformed" \in failing THEN Raise("KeyError")
        ELSE Ok(ServedArchives(finished))

\* get_games_from_archive: [] when the request fails
get_games_from_archive(archive_url, finished, failing) ==
    IF Fetch(archive_url, failing).res.status = "ok"
    THEN ServedGames(archive_url, finished)
    ELSE <<>>

\* get_existing_urls
get_existing_urls(self) == {self.existing_games[i].url : i \in DOMAIN self.existing_games}

\* new_in_archive without the test on existing_urls
new_in_archive_unfiltered(archive_games, existing_urls) == archive_games

\* new_in_archive: the games of the archive whose url is not an existing one
new_in_archive(archive_games, existing_urls) ==
    SelectSeq(archive_games, LAMBDA game : game.url \notin existing_urls)

\* the loop of update_games over reversed(archives), from the latest archive
\* down; it stops at an archive without new games once new games were found
RECURSIVE update_games_loop(_, _, _, _, _, _)
update_games_loop(archives, k, new_games, existing_urls, finished, failing) ==
    IF k < 1 THEN new_games
    ELSE LET archive_games == get_games_from_archive(archives[k], finished, failing)
             new == new_in_archive(archive_games, existing_urls)
         IN  IF new = <<>> /\ new_games # <<>> THEN new_games
             ELSE update_games_loop(archives, k - 1, new_games \o new, existing_urls,
                                    finished, failing)

\* ChessDataUpdater.save_games(games)
updater_save_games(self, gs) == [self EXCEPT !.file = WrittenFile(gs)]

\* ChessDataUpdater.update_games: the object after the call, the pair
\* (new_games_count, total_games_count) returned, and whether the call got
\* as far as saving the file; any exception gives (0, len(existing_games))
update_games(self, username, finished, failing) ==
    LET existing_urls == get_existing_urls(self)
        got == get_archives_urls(username, finished, failing)
        archives == got.value
        new_games == update_games_loop(archives, Len(archives), <<>>, existing_urls,
                                       finished, failing)
        all_games == sorted_recent_first(self.existing_games \o new_games)
        unchanged == [self |-> self, res |-> <<0, Len(self.existing_games)>>,
                      saved |-> FALSE]
    IN  IF got.status # "ok" THEN unchanged
        ELSE IF archives = <<>> THEN unchanged
        ELSE [self |-> updater_save_games(self, all_games),
              res |-> <<Len(new_games), Len(all_games)>>, saved |-> TRUE]

\* ChessDataUpdater(filename): the games of the file are read once, here
load_existing_games(file) == IF file.state = "written" THEN file.content ELSE <<>>

-----------------------------------------------------------------------------
(* app.py: the dashboard, its global logged_in_user and its log file        *)
(*                                                                          *)
(* The dashboard object stands for the module state of app.py: the global   *)
(* logged_in_user, the rows appended to LOG_FILE (the Timestamp column, the *)
(* wall clock, is left out), and the users who hold an authenticated        *)
(* browser session, each of whom may press Submit at any time.              *)

\* auth_users
auth_users ==
    << <<"Sacha", "SachaIsTheBest">>, <<"Gael", "Kalel">> >>

\* dict(auth_users)
valid_users == [u \in {auth_users[i][1] : i \in DOMAIN auth_users} |->
                  (CHOOSE p \in {auth_users[i][2] : i \in DOMAIN auth_users} :
                      \E i \in DOMAIN auth_users : auth_users[i] = <<u, p>>)]

\* the credentials typed at the login page
Credentials ==
    {<<"Sacha", "SachaIsTheBest">>, <<"Gael", "Kalel">>, <<"Sacha", "guess">>}

\* log_user_action(username, action, query)
log_user_action(log, username, action, query) ==
    Append(log, [username |-> username, action |-> action, query |-> query])

\* auth_callback(username, password): the dashboard after the call and the
\* value returned
auth_callback(dashboard_, username, password) ==
    IF username \in DOMAIN valid_users /\ valid_users[username] = password
    THEN [self |-> [dashboard_ EXCEPT
                       !.log = log_user_action(@, username, "Login", ""),
                       !.logged_in_user = username],
          res |-> TRUE]
    ELSE [self |-> dashboard_, res |-> FALSE]

\* logged_in_user or "Unknown"
OrUnknown(user) == IF user = None THEN "Unknown" ELSE user

\* get_report_with_user(username): get_monthly_report(username,
\* logged_in_user or "Unknown") logs the search, then builds the report from
\* the records gs of the searched player
get_report_with_user(dashboard_, username, gs, cached) ==
    [self |-> [dashboard_ EXCEPT
                  !.log = log_user_action(@, OrUnknown(dashboard_.logged_in_user),
                                          "Search", username)],
     res |-> get_monthly_report(gs, username, cached)]

-----------------------------------------------------------------------------
(* The state machine: the data source delivers a record sequence, or the   *)
(* notation text of one game, then one analysis is run on it                *)

NoOut == [op |-> "none"]

\* the analyzer object as ChessGameAnalyzer() builds it where there is no
\* file yet; last is the latest call made on the object
AnalyzerInit == [games |-> load_games(NoFile), file |-> NoFile, last |-> [op |-> "none"]]

\* the dashboard as the module body of app.py leaves it: nobody logged in,
\* the log holding its header row only
DashboardInit ==
    [logged_in_user |-> None, log |-> <<>>, sessions |-> {}, last |-> [op |-> "none"]]

\* the updater as ChessDataUpdater(filename) leaves it when there is no
\* file yet
UpdaterInit ==
    [existing_games |-> load_existing_games(NoFile), file |-> NoFile, last |-> [op |-> "none"]]

\* the updater and the site it reads are as at the start
UpdaterQuiet == updater = UpdaterInit /\ played = 0

\* no object beside the record sequence and the notation text is at work
Quiet == analyzer = AnalyzerInit /\ dashboard = DashboardInit /\ UpdaterQuiet

Init ==
    /\ games = <<>>
    /\ moves_text = <<>>
    /\ out = NoOut
    /\ played = 0
    /\ updater = UpdaterInit
    /\ dashboard = DashboardInit
    /\ analyzer = AnalyzerInit

\* the data source hands one more record to the analyses
AddGame ==
    /\ out = NoOut
    /\ Quiet
    /\ moves_text = <<>>
    /\ Len(games) < MaxGames
    /\ \E g \in (IF Len(games) < MaxVaried THEN Records ELSE CoreRecords) :
          games' = Append(games, g)
    /\ out' = NoOut
    /\ UNCHANGED <<moves_text, analyzer, dashboard, updater, played>>

\* the notation text of the game under analysis gets one more ply
AddPly ==
    /\ out = NoOut
    /\ Quiet
    /\ games = <<>>
    /\ Len(moves_text) < MaxPlies
    /\ \E c \in (IF Len(moves_text) < MaxVaried THEN ClockTexts ELSE CoreClockTexts) :
          moves_text' = Append(moves_text, c)
    /\ out' = NoOut
    /\ UNCHANGED <<games, analyzer, dashboard, updater, played>>

\* the sides the target can have in the game: one of the two, or none when
\* the game is between two other players
TimedSides == {"white", "black", "none"}

\* the game the notation text belongs to, the target playing the given side
TimedGame(side, time_control) ==
    LET w == IF side = "white" THEN USERNAME
             ELSE IF side = "black" THEN "Opponent" ELSE "Stranger"
        b == IF side = "black" THEN USERNAME ELSE "Opponent"
    IN  [white |-> [username |-> w], black |-> [username |-> b],
         headers |-> [White |-> w, Black |-> b],
         time_control |-> time_control, moves |-> moves_text,
         pgn |-> Pgn(2, moves_text)]

\* the records of the target's game as White that lack what the timing
\* analysis reads: no white key, a white player without username or with
\* username None, and, for a game without moves text, no pgn key, a pgn of
\* None, and a pgn made of the headers alone
Without(game, key) == [k \in DOMAIN game \ {key} |-> game[k]]

MalformedGames ==
    LET game == TimedGame("white", "300")
    IN  [ no_white |-> Without(game, "white"),
          no_username |-> [game EXCEPT !.white = [rating |-> 1500]],
          username_none |-> [game EXCEPT !.white = [username |-> None]] ]
        @@ (IF moves_text # <<>> THEN <<>>
            ELSE [ no_pgn |-> Without(game, "pgn"),
                   pgn_none |-> [game EXCEPT !.pgn = PgnNone],
                   headers_only |-> [game EXCEPT !.pgn = Pgn(1, <<>>)] ])

\* ChessGameAnalyzer.get_move_timing_analysis on the game
GetMoveTimingAnalysis ==
    /\ out = NoOut
    /\ Quiet
    /\ games = <<>>
    /\ \/ \E side \in TimedSides :
             out' = [op |-> "get_move_timing_analysis", side |-> side,
                     shape |-> "full",
                     res |-> get_move_timing_analysis(TimedGame(side, "300"))]
       \/ \E shape \in DOMAIN MalformedGames :
             out' = [op |-> "get_move_timing_analysis", side |-> "white",
                     shape |-> shape,
                     res |-> get_move_timing_analysis(MalformedGames[shape])]
    /\ UNCHANGED <<games, moves_text, analyzer, dashboard, updater, played>>

\* chess_time_visu.py process_moves on the moves text
ProcessMoves ==
    /\ out = NoOut
    /\ Quiet
    /\ games = <<>>
    /\ \E side \in {"white", "black"} :
          out' = [op |-> "process_moves", side |-> side,
                  res |-> Ok(process_moves(moves_text, side = "white", 300))]
    /\ UNCHANGED <<games, moves_text, analyzer, dashboard, updater, played>>

\* time_mgmt.py process_chess_data on the game
TimeMgmtProcessChessData ==
    /\ out = NoOut
    /\ Quiet
    /\ games = <<>>
    /\ \E side \in TimedSides, tc \in TimeControls :
          out' = [op |-> "time_mgmt_process_chess_data", side |-> side,
                  time_control |-> tc,
                  res |-> Ok(time_mgmt_process_chess_data(TimedGame(side, tc), USERNAME))]
    /\ UNCHANGED <<games, moves_text, analyzer, dashboard, updater, played>>

\* the store of the analyzer: the game of the notation text, and a later
\* game that came without pgn
TimedStore(side) ==
    LET game == TimedGame(side, "300")
    IN  << game @@ [end_time |-> T1, url |-> "game/1",
                    eco |-> <<"https:", "", "www.chess.com", "openings",
                              "Kings-Pawn-Opening">>],
           Without(game, "pgn") @@ [end_time |-> T2, url |-> "game/2"] >>

\* ChessGameAnalyzer.analyze_recent_game_timing on the store
AnalyzeRecentGameTiming ==
    /\ out = NoOut
    /\ Quiet
    /\ games = <<>>
    /\ \E side \in {"white", "black"}, num_games \in DOMAIN TimedStore("white"),
          moves_per_game \in 1..MaxTopN :
          out' = [op |-> "analyze_recent_game_timing", side |-> side,
                  num_games |-> num_games, moves_per_game |-> moves_per_game,
                  res |-> analyze_recent_game_timing(TimedStore(side), num_games,
                                                     moves_per_game)]
    /\ UNCHANGED <<games, moves_text, analyzer, dashboard, updater, played>>

\* chess_time_visu.py find_top_thinks on the moves of the player
TimeVisuFindTopThinks ==
    /\ out = NoOut
    /\ Quiet
    /\ games = <<>>
    /\ \E side \in {"white", "black"}, top_n \in 1..MaxTopN :
          out' = [op |-> "time_visu_find_top_thinks", side |-> side,
                  top_n |-> top_n,
                  res |-> Ok(time_visu_find_top_thinks(
                                process_moves(moves_text, side = "white", 300), top_n))]
    /\ UNCHANGED <<games, moves_text, analyzer, dashboard, updater, played>>

\* chess_time_visu.py process_chess_data on the game, up to the top thinks
\* of the player
TimeVisuTopThinks ==
    /\ out = NoOut
    /\ Quiet
    /\ games = <<>>
    /\ \E side \in TimedSides :
          out' = [op |-> "time_visu_top_thinks", side |-> side,
                  res |-> Ok(time_visu_top_thinks(TimedGame(side, "300"), USERNAME))]
    /\ UNCHANGED <<games, moves_text, analyzer, dashboard, updater, played>>

\* the three clock conversions on one clock text
ConvertClockToSeconds ==
    /\ out = NoOut
    /\ Quiet
    /\ games = <<>>
    /\ moves_text = <<>>
    /\ \E c \in ClockTexts :
          out' = [op |-> "convert_clock_to_seconds", clock |-> c,
                  res |-> convert_clock_to_seconds(c)]
    /\ UNCHANGED <<games, moves_text, analyzer, dashboard, updater, played>>

ClockToSeconds ==
    /\ out = NoOut
    /\ Quiet
    /\ games = <<>>
    /\ moves_text = <<>>
    /\ \E c \in ClockTexts :
          out' = [op |-> "clock_to_seconds", clock |-> c,
                  res |-> Ok(clock_to_seconds(c))]
    /\ UNCHANGED <<games, moves_text, analyzer, dashboard, updater, played>>

TimeMgmtClockToSeconds ==
    /\ out = NoOut
    /\ Quiet
    /\ games = <<>>
    /\ moves_text = <<>>
    /\ \E c \in ClockTexts :
          out' = [op |-> "time_mgmt_clock_to_seconds", clock |-> c,
                  res |-> Ok(time_mgmt_clock_to_seconds(c))]
    /\ UNCHANGED <<games, moves_text, analyzer, dashboard, updater, played>>

\* the lists of new games the data source can hand to add_games: any games,
\* the same one twice included
NewGameLists ==
    UNION {[1..n -> Range(FetchedGames)] : n \in 0..MaxStored}

\* the store is at work and nothing else
StoreOnly ==
    games = <<>> /\ moves_text = <<>> /\ dashboard = DashboardInit /\ UpdaterQuiet

\* ChessGameAnalyzer.add_games on a list of new games
AddGames ==
    /\ out = NoOut
    /\ StoreOnly
    /\ \E new_games \in NewGameLists :
          LET r == add_games(analyzer, new_games)
          IN  /\ Len(r.self.games) <= MaxStored
              /\ analyzer' = [r.self EXCEPT !.last =
                                 [op |-> "add_games", before |-> analyzer.games,
                                  new_games |-> new_games, res |-> r.res]]
    /\ UNCHANGED <<games, moves_text, out, dashboard, updater, played>>

\* ChessGameAnalyzer.save_games
SaveGames ==
    /\ out = NoOut
    /\ StoreOnly
    /\ LET r == save_games(analyzer)
       IN  analyzer' = [r.self EXCEPT !.last =
                          [op |-> "save_games", before |-> analyzer.games, res |-> r.res]]
    /\ UNCHANGED <<games, moves_text, out, dashboard, updater, played>>

\* ChessGameAnalyzer.filter_games
FilterGames ==
    /\ out = NoOut
    /\ StoreOnly
    /\ \E kwargs \in FilterKwargs :
          LET r == filter_games(analyzer, kwargs)
          IN  analyzer' = [r.self EXCEPT !.last =
                             [op |-> "filter_games", before |-> analyzer.games,
                              kwargs |-> kwargs, res |-> r.res]]
    /\ UNCHANGED <<games, moves_text, out, dashboard, updater, played>>

\* ChessGameAnalyzer.find_similar_games, with the default min_similarity 0.6
FindSimilarGames ==
    /\ out = NoOut
    /\ StoreOnly
    /\ \E game_url \in {FetchedGames[i].url : i \in DOMAIN FetchedGames} :
          LET r == find_similar_games(analyzer, game_url, Float(6, 10))
          IN  analyzer' = [r.self EXCEPT !.last =
                             [op |-> "find_similar_games", before |-> analyzer.games,
                              game_url |-> game_url, res |-> r.res]]
    /\ UNCHANGED <<games, moves_text, out, dashboard, updater, played>>

\* the dashboard is at work and nothing else
DashboardOnly ==
    games = <<>> /\ moves_text = <<>> /\ analyzer = AnalyzerInit /\ UpdaterQuiet

\* app.launch(auth=auth_users): the login page checks the credentials
\* against the list itself, and opens a session for the user
LaunchAuth ==
    /\ out = NoOut
    /\ DashboardOnly
    /\ Len(dashboard.log) < MaxLog
    /\ \E c \in Credentials :
          /\ \E i \in DOMAIN auth_users : auth_users[i] = c
          /\ dashboard' = [dashboard EXCEPT
                              !.sessions = @ \cup {c[1]},
                              !.last = [op |-> "launch_auth", username |-> c[1]]]
    /\ UNCHANGED <<games, moves_text, out, analyzer, updater, played>>

\* auth_callback as the function that authenticates a login
AuthCallback ==
    /\ out = NoOut
    /\ DashboardOnly
    /\ Len(dashboard.log) < MaxLog
    /\ \E c \in Credentials :
          LET r == auth_callback(dashboard, c[1], c[2])
          IN  dashboard' = [r.self EXCEPT
                              !.sessions = IF r.res THEN @ \cup {c[1]} ELSE @,
                              !.last = [op |-> "auth_callback", username |-> c[1],
                                        res |-> r.res]]
    /\ UNCHANGED <<games, moves_text, out, analyzer, updater, played>>

\* a user holding a session presses Submit: get_report_with_user
GetReportWithUser ==
    /\ out = NoOut
    /\ DashboardOnly
    /\ Len(dashboard.log) < MaxLog
    /\ \E issuer \in dashboard.sessions, cached \in BOOLEAN,
          gs \in {<<>>, <<Game(T1, "white", "win")>>} :
          LET r == get_report_with_user(dashboard, USERNAME, gs, cached)
          IN  dashboard' = [r.self EXCEPT
                              !.last = [op |-> "get_report_with_user",
                                        issuer |-> issuer, query |-> USERNAME,
                                        res |-> r.res]]
    /\ UNCHANGED <<games, moves_text, out, analyzer, updater, played>>

\* get_game_result on one record of the sequence
GetGameResult ==
    /\ out = NoOut
    /\ Quiet
    /\ moves_text = <<>>
    /\ \E i \in DOMAIN games :
          out' = [op |-> "get_game_result", game |-> games[i],
                  value |-> get_game_result(games[i], USERNAME)]
    /\ UNCHANGED <<games, moves_text, analyzer, dashboard, updater, played>>

\* utils/game_analysis.py analyze_games on the sequence
AnalyzeGames ==
    /\ out = NoOut
    /\ Quiet
    /\ moves_text = <<>>
    /\ out' = [op |-> "analyze_games", res |-> analyze_games(games, USERNAME)]
    /\ UNCHANGED <<games, moves_text, analyzer, dashboard, updater, played>>

\* utils/game_analysis.py generate_monthly_report on the sequence
GenerateMonthlyReport ==
    /\ out = NoOut
    /\ Quiet
    /\ moves_text = <<>>
    /\ out' = [op |-> "generate_monthly_report",
               res |-> generate_monthly_report(games, USERNAME)]
    /\ UNCHANGED <<games, moves_text, analyzer, dashboard, updater, played>>

\* utils/game_analysis.py analyze_time_stats on the sequence
AnalyzeTimeStats ==
    /\ out = NoOut
    /\ Quiet
    /\ moves_text = <<>>
    /\ out' = [op |-> "analyze_time_stats", res |-> analyze_time_stats(games, USERNAME)]
    /\ UNCHANGED <<games, moves_text, analyzer, dashboard, updater, played>>

\* archive/main.py: analyze_games, then generate_report for each category
MainReports ==
    /\ out = NoOut
    /\ Quiet
    /\ moves_text = <<>>
    /\ out' = [op |-> "main_reports", res |-> Ok(main_reports(games, USERNAME))]
    /\ UNCHANGED <<games, moves_text, analyzer, dashboard, updater, played>>

\* archive/main.py calculate_rates on the counters of one bucket
CalculateRates ==
    /\ out = NoOut
    /\ Quiet
    /\ games = <<>>
    /\ moves_text = <<>>
    /\ \E w \in 0..MaxGames, l \in 0..MaxGames, t \in 0..MaxGames, n \in 0..MaxGames :
          /\ t <= l
          /\ w + l <= n
          /\ out' = [op |-> "calculate_rates", total_games |-> n,
                     res |-> Ok(calculate_rates([wins |-> w, losses |-> l, timeouts |-> t], n))]
    /\ UNCHANGED <<games, moves_text, analyzer, dashboard, updater, played>>

\* archive/consecutive.py calculate_probability on two counters
CalculateProbability ==
    /\ out = NoOut
    /\ Quiet
    /\ games = <<>>
    /\ moves_text = <<>>
    /\ \E d \in 0..MaxGames, n \in 0..MaxGames :
          /\ n <= d
          /\ out' = [op |-> "calculate_probability", denominator |-> d,
                     res |-> Ok(calculate_probability(n, d))]
    /\ UNCHANGED <<games, moves_text, analyzer, dashboard, updater, played>>

\* archive/consecutive.py main: sort, then analyze_streaks
AnalyzeStreaks ==
    /\ out = NoOut
    /\ Quiet
    /\ moves_text = <<>>
    /\ LET games_sorted == sorted_end_time(games)
       IN  out' = [op |-> "analyze_streaks",
                   res |-> IF games_sorted.status = "raise" THEN games_sorted
                           ELSE Ok(analyze_streaks(games_sorted.value, USERNAME))]
    /\ UNCHANGED <<games, moves_text, analyzer, dashboard, updater, played>>

\* archive/consecutive.py main: sort, then analyze_sequences
AnalyzeSequences ==
    /\ out = NoOut
    /\ Quiet
    /\ moves_text = <<>>
    /\ LET games_sorted == sorted_end_time(games)
       IN  out' = [op |-> "analyze_sequences",
                   res |-> IF games_sorted.status = "raise" THEN games_sorted
                           ELSE Ok(analyze_sequences(games_sorted.value, USERNAME))]
    /\ UNCHANGED <<games, moves_text, analyzer, dashboard, updater, played>>

\* archive/daily_proba.py calculate_average_and_median_games on the sequence
CalculateAverageAndMedianGames ==
    /\ out = NoOut
    /\ Quiet
    /\ moves_text = <<>>
    /\ out' = [op |-> "calculate_average_and_median_games",
               res |-> calculate_average_and_median_games(games)]
    /\ UNCHANGED <<games, moves_text, analyzer, dashboard, updater, played>>

\* utils/probability_analysis.py calculate_win_probability on the sorted
\* sequence
CalculateWinProbability ==
    /\ out = NoOut
    /\ Quiet
    /\ moves_text = <<>>
    /\ LET games_sorted == sorted_end_time(games)
       IN  out' = [op |-> "calculate_win_probability",
                   res |-> IF games_sorted.status = "raise" THEN games_sorted
                           ELSE Ok(calculate_win_probability(games_sorted.value, USERNAME))]
    /\ UNCHANGED <<games, moves_text, analyzer, dashboard, updater, played>>

\* archive/daily_proba.py main: sort, then
\* calculate_win_probability_by_position
CalculateWinProbabilityByPosition ==
    /\ out = NoOut
    /\ Quiet
    /\ moves_text = <<>>
    /\ LET games_sorted == sorted_end_time(games)
       IN  out' = [op |-> "calculate_win_probability_by_position",
                   res |-> IF games_sorted.status = "raise" THEN games_sorted
                           ELSE Ok(calculate_win_probability_by_position(
                                       games_sorted.value, USERNAME))]
    /\ UNCHANGED <<games, moves_text, analyzer, dashboard, updater, played>>

\* utils/tilt_detector.py detect_tilt_streaks on the sequence
DetectTiltStreaks ==
    /\ out = NoOut
    /\ Quiet
    /\ moves_text = <<>>
    /\ \E n \in 1..MaxGames :
          out' = [op |-> "detect_tilt_streaks", tilt_streak_count |-> n,
                  res |-> detect_tilt_streaks(games, USERNAME, n)]
    /\ UNCHANGED <<games, moves_text, analyzer, dashboard, updater, played>>

\* archive/tiltor.py detect_tilt_streaks on the sequence
TiltorDetectTiltStreaks ==
    /\ out = NoOut
    /\ Quiet
    /\ moves_text = <<>>
    /\ \E n \in 1..MaxGames :
          out' = [op |-> "tiltor_detect_tilt_streaks", tilt_streak_count |-> n,
                  res |-> tiltor_detect_tilt_streaks(games, USERNAME, n, TILT_TIME_GAP)]
    /\ UNCHANGED <<games, moves_text, analyzer, dashboard, updater, played>>

\* views.py process_game on one record of the sequence
ProcessGame ==
    /\ out = NoOut
    /\ Quiet
    /\ moves_text = <<>>
    /\ \E i \in DOMAIN games :
          out' = [op |-> "process_game", game |-> games[i],
                  value |-> process_game(games[i], USERNAME)]
    /\ UNCHANGED <<games, moves_text, analyzer, dashboard, updater, played>>

\* ChessGameAnalyzer.get_statistics on the sequence
GetStatistics ==
    /\ out = NoOut
    /\ Quiet
    /\ moves_text = <<>>
    /\ out' = [op |-> "get_statistics", res |-> Ok(get_statistics(games))]
    /\ UNCHANGED <<games, moves_text, analyzer, dashboard, updater, played>>

\* the updater is the only object at work
UpdaterOnly ==
    games = <<>> /\ moves_text = <<>> /\ analyzer = AnalyzerInit /\ dashboard = DashboardInit

\* ChessDataUpdater.make_request(url, retries=n), the n attempts giving the
\* outcomes drawn
MakeRequest ==
    /\ out = NoOut
    /\ Quiet
    /\ games = <<>> /\ moves_text = <<>>
    /\ \E retries \in 0..MaxRetries :
         \E outcomes \in [1..retries -> AttemptOutcomes] :
           LET r == make_request(outcomes, retries)
           IN  out' = [op |-> "make_request", retries |-> retries, outcomes |-> outcomes,
                       gets |-> r.gets, res |-> r.res]
    /\ UNCHANGED <<games, moves_text, analyzer, dashboard, updater, played>>

\* the urls whose requests can fail, and a response of the archive list that
\* lacks its key
Failures == SUBSET ({"profile", "archives", "malformed"}
                    \cup {SiteArchives[i].url : i \in DOMAIN SiteArchives})

\* the player finishes one more game on the site
PlayGame ==
    /\ out = NoOut
    /\ UpdaterOnly
    /\ played < Len(FetchedGames)
    /\ played' = played + 1
    /\ UNCHANGED <<games, out, moves_text, analyzer, dashboard, updater>>

\* ChessDataUpdater(filename) on the file as it is now
NewUpdater ==
    /\ out = NoOut
    /\ UpdaterOnly
    /\ updater' = [existing_games |-> load_existing_games(updater.file),
                   file |-> updater.file, last |-> [op |-> "init"]]
    /\ UNCHANGED <<games, out, moves_text, analyzer, dashboard, played>>

\* ChessDataUpdater.update_games(username), some requests failing
UpdateGames ==
    /\ out = NoOut
    /\ UpdaterOnly
    /\ \E username \in {USERNAME, "kalel1130"}, failing \in Failures :
         LET r == update_games(updater, username, played, failing)
         IN  updater' = [r.self EXCEPT !.last =
                           [op |-> "update_games", res |-> r.res, saved |-> r.saved,
                            file_before |-> updater.file]]
    /\ UNCHANGED <<games, out, moves_text, analyzer, dashboard, played>>

\* app.py get_monthly_report on the sequence
GetMonthlyReport ==
    /\ out = NoOut
    /\ Quiet
    /\ moves_text = <<>>
    /\ \E cached \in BOOLEAN :
          out' = [op |-> "get_monthly_report", cached |-> cached,
                  res |-> get_monthly_report(games, USERNAME, cached)]
    /\ UNCHANGED <<games, moves_text, analyzer, dashboard, updater, played>>

Next ==
    \/ CalculateWinProbability
    \/ CalculateWinProbabilityByPosition
    \/ MakeRequest
    \/ PlayGame
    \/ NewUpdater
    \/ UpdateGames
    \/ AddGame
    \/ AddPly
    \/ GetMoveTimingAnalysis
    \/ ProcessMoves
    \/ TimeMgmtProcessChessData
    \/ TimeVisuTopThinks
    \/ AnalyzeRecentGameTiming
    \/ TimeVisuFindTopThinks
    \/ ConvertClockToSeconds
    \/ ClockToSeconds
    \/ TimeMgmtClockToSeconds
    \/ GetGameResult
    \/ AnalyzeGames
    \/ GenerateMonthlyReport
    \/ AnalyzeTimeStats
    \/ MainReports
    \/ CalculateRates
    \/ CalculateProbability
    \/ AnalyzeStreaks
    \/ AnalyzeSequences
    \/ CalculateAverageAndMedianGames
    \/ DetectTiltStreaks
    \/ TiltorDetectTiltStreaks
    \/ ProcessGame
    \/ GetStatistics
    \/ GetMonthlyReport
    \/ AddGames
    \/ SaveGames
    \/ FilterGames
    \/ FindSimilarGames
    \/ LaunchAuth
    \/ AuthCallback
    \/ GetReportWithUser

Spec == Init /\ [][Next]_vars

-----------------------------------------------------------------------------
(* What the specification says of a record, stated apart from the code *)

LossStrings == {"checkmated", "resigned", "lose", "abandoned"}

\* the normalized result of a result string
Normalize(r) ==
    CASE r = "win" -> "win"
      [] r = "timeout" -> "timeout"
      [] r \in LossStrings -> "loss"
      [] OTHER -> None

\* the result string of the side whose username is exactly the target's
MatchedResult(g) ==
    IF g.white.username = USERNAME THEN g.white.result
    ELSE IF g.black.username = USERNAME THEN g.black.result
    ELSE None

\* the result string of the side whose username is the target's, whatever
\* the letter case
MatchedResultAnyCase(g) ==
    IF Lower(g.white.username) = Lower(USERNAME) THEN g.white.result
    ELSE IF Lower(g.black.username) = Lower(USERNAME) THEN g.black.result
    ELSE None

EndTimeOf(g) == Get(g, "end_time", Null)

\* the record has an end_time that is neither missing nor null
HasEndTime(g) == EndTimeOf(g) # Null

\* the target username is the white or the black one, whatever the case
MatchesSomeSide(g) ==
    \/ Lower(g.white.username) = Lower(USERNAME)
    \/ Lower(g.black.username) = Lower(USERNAME)

\* the records counted in the month bucket m
InMonth(m) == {i \in DOMAIN games : HasEndTime(games[i]) /\ MonthOf(EndTimeOf(games[i])) = m}

\* the records counted in the weekday-hour bucket (d, h)
InDayHour(d, h) ==
    {i \in DOMAIN games : /\ HasEndTime(games[i])
                          /\ DayNameOf(EndTimeOf(games[i])) = d
                          /\ HourOf(EndTimeOf(games[i])) = h}

LostOrTimedOut(S) == {i \in S : Normalize(MatchedResult(games[i])) \in {"loss", "timeout"}}
TimedOut(S) == {i \in S : Normalize(MatchedResult(games[i])) = "timeout"}

-----------------------------------------------------------------------------
(* C1 *)

\* C1: get_game_result maps the matched side's result string: win to win,
\* timeout to timeout, checkmated / resigned / lose / abandoned to loss, and
\* every other string, or no matching side, to None; analyze_games, its
\* caller, tallies as wins exactly the records whose matched string is win
\* and as losses exactly those whose matched string is a lost or timed-out
\* game, so an unmapped string is never tallied as a win or as a loss;
\* ChessGameAnalyzer.get_statistics tallies as wins the records whose player
\* result is win and as losses only records whose player result is one of
\* the mapped loss strings.
C1_ResultMapping ==
    /\ out.op = "get_game_result" =>
          out.value = Normalize(MatchedResult(out.game))
    /\ out.op = "analyze_games" =>
          /\ out.res.value.wins =
                Cardinality({i \in DOMAIN games : MatchedResult(games[i]) = "win"})
          /\ out.res.value.losses =
                Cardinality({i \in DOMAIN games :
                                MatchedResult(games[i]) \in LossStrings \cup {"timeout"}})
    /\ out.op = "get_statistics" =>
          /\ out.res.value.wins =
                Cardinality({i \in DOMAIN games : get_player_result(games[i]) = "win"})
          /\ out.res.value.losses <=
                Cardinality({i \in DOMAIN games :
                                get_player_result(games[i]) \in LossStrings \cup {"timeout"}})

\* get_game_result has been given an unmapped string and a lost game
C1_Witness ==
    /\ out.op = "get_game_result"
    /\ Len(games) = 2
    /\ MatchedResult(games[1]) = "stalemate"
    /\ MatchedResult(games[2]) = "abandoned"
    /\ out.game = games[2]
    /\ out.value = "loss"

-----------------------------------------------------------------------------
(* C2 *)

\* C2: in the overall totals of analyze_games, in every month bucket of
\* generate_monthly_report and in every weekday-hour bucket of
\* analyze_time_stats, the reported losses are the number of counted games
\* whose normalized result is loss or timeout and the reported timeouts the
\* number whose normalized result is timeout, so timeouts <= losses.
C2_LossesIncludeTimeouts ==
    /\ out.op = "analyze_games" =>
          /\ out.res.value.losses = Cardinality(LostOrTimedOut(DOMAIN games))
          /\ out.res.value.timeouts = Cardinality(TimedOut(DOMAIN games))
          /\ out.res.value.timeouts <= out.res.value.losses
    /\ (out.op = "generate_monthly_report" /\ out.res.status = "ok") =>
          \A i \in DOMAIN out.res.value :
             LET row == out.res.value[i]
             IN  /\ row.Losses = Cardinality(LostOrTimedOut(InMonth(row.Month)))
                 /\ row.Timeout_Rate_percent =
                       Round1(Percent(Cardinality(TimedOut(InMonth(row.Month))),
                                      row.Games_Played))
    /\ (out.op = "analyze_time_stats" /\ out.res.status = "ok") =>
          \A i \in DOMAIN out.res.value :
             LET row == out.res.value[i]
                 S == InDayHour(row.day_of_week, row.hour)
             IN  /\ row.losses = Cardinality(LostOrTimedOut(S))
                 /\ row.timeouts = Cardinality(TimedOut(S))
                 /\ row.timeouts <= row.losses

-----------------------------------------------------------------------------
(* C3 *)

\* a row of an archive report keeps wins + losses within the games played
\* and its three rates within 0..100
ReportRowsInBounds(rows) ==
    \A i \in DOMAIN rows :
       /\ rows[i].Wins + rows[i].Losses <= rows[i].Games_Played
       /\ InPercentRange(rows[i].Win_Rate)
       /\ InPercentRange(rows[i].Loss_Rate)
       /\ InPercentRange(rows[i].Timeout_Rate)

\* C3: in every bucket of every aggregation (the month, weekday, hour and
\* weekday-hour reports of archive/main.py, the month rows of
\* generate_monthly_report, the weekday-hour entries of analyze_time_stats)
\* wins + losses <= games_played and every rate lies in 0..100.
C3_BucketBounds ==
    /\ out.op = "main_reports" =>
          /\ ReportRowsInBounds(out.res.value.Month)
          /\ ReportRowsInBounds(out.res.value.Day)
          /\ ReportRowsInBounds(out.res.value.Hour)
          /\ ReportRowsInBounds(out.res.value.Day_Hour)
    /\ (out.op = "generate_monthly_report" /\ out.res.status = "ok") =>
          \A i \in DOMAIN out.res.value :
             LET row == out.res.value[i]
             IN  /\ row.Wins + row.Losses <= row.Games_Played
                 /\ InPercentRange(row.Win_Rate_percent)
                 /\ InPercentRange(row.Timeout_Rate_percent)
    /\ (out.op = "analyze_time_stats" /\ out.res.status = "ok") =>
          \A i \in DOMAIN out.res.value :
             LET row == out.res.value[i]
             IN  /\ row.wins + row.losses <= row.games_played
                 /\ InPercentRange(row.win_rate_percent)
                 /\ InPercentRange(row.loss_rate_percent)
                 /\ InPercentRange(row.timeout_rate_percent)

\* a month bucket of the archive report holds a won and a timed-out game
C3_Witness ==
    /\ out.op = "main_reports"
    /\ \E i \in DOMAIN out.res.value.Month :
          LET row == out.res.value.Month[i]
          IN  /\ row.Games_Played = 2
              /\ row.Wins = 1
              /\ row.Losses = 1
              /\ row.Timeouts = 1

-----------------------------------------------------------------------------
(* C4 *)

\* the input without the records whose end_time is missing or null
WithEndTime(gs) == SelectSeq(gs, HasEndTime)

\* C4: a record whose end_time is missing or null is counted in no bucket of
\* generate_monthly_report, analyze_time_stats or the archive analyze_games:
\* the buckets are those of the input without the record.
C4_NullEndTimeAbsent ==
    /\ out.op = "generate_monthly_report" =>
          out.res = generate_monthly_report(WithEndTime(games), USERNAME)
    /\ out.op = "analyze_time_stats" =>
          out.res = analyze_time_stats(WithEndTime(games), USERNAME)
    /\ out.op = "main_reports" =>
          out.res.value = main_reports(WithEndTime(games), USERNAME)

-----------------------------------------------------------------------------
(* C5 *)

\* the input without the records where the target is on neither side
Matching(gs) == SelectSeq(gs, MatchesSomeSide)

\* C5: a record where the target username is on neither side contributes to
\* no count: the totals and the buckets are those of the input without it.
C5_NoMatchExcluded ==
    /\ out.op = "analyze_games" =>
          out.res = analyze_games(Matching(games), USERNAME)
    /\ out.op = "get_statistics" =>
          out.res.value = get_statistics(Matching(games))
    /\ out.op = "main_reports" =>
          out.res.value = main_reports(Matching(games), USERNAME)

-----------------------------------------------------------------------------
(* C6 *)

\* the last record of the input: a present end_time, the target on one side,
\* a result string outside the known vocabulary
LastIsUnknownResult ==
    /\ games # <<>>
    /\ HasEndTime(games[Len(games)])
    /\ MatchedResult(games[Len(games)]) \notin
          {None, "win", "timeout"} \cup LossStrings

AllButLast == SubSeq(games, 1, Len(games) - 1)

\* the row of a month in a monthly DataFrame, an all-zero row when absent
MonthRow(rows, m) ==
    IF \E i \in DOMAIN rows : rows[i].Month = m
    THEN LET r == rows[CHOOSE i \in DOMAIN rows : rows[i].Month = m]
         IN  [games_played |-> r.Games_Played, wins |-> r.Wins, losses |-> r.Losses]
    ELSE [games_played |-> 0, wins |-> 0, losses |-> 0]

\* the entry of a weekday-hour pair in time_stats, all-zero when absent
DayHourRow(rows, d, h) ==
    IF \E i \in DOMAIN rows : rows[i].day_of_week = d /\ rows[i].hour = h
    THEN LET r == rows[CHOOSE i \in DOMAIN rows :
                          rows[i].day_of_week = d /\ rows[i].hour = h]
         IN  [games_played |-> r.games_played, wins |-> r.wins, losses |-> r.losses,
              timeouts |-> r.timeouts]
    ELSE [games_played |-> 0, wins |-> 0, losses |-> 0, timeouts |-> 0]

\* the row of a key in an archive report, all-zero when absent
ReportRow(rows, k) ==
    IF \E i \in DOMAIN rows : rows[i].key = k
    THEN LET r == rows[CHOOSE i \in DOMAIN rows : rows[i].key = k]
         IN  [games_played |-> r.Games_Played, wins |-> r.Wins, losses |-> r.Losses,
              timeouts |-> r.Timeouts]
    ELSE [games_played |-> 0, wins |-> 0, losses |-> 0, timeouts |-> 0]

\* C6: a record with a present end_time and a matching username whose result
\* string is outside the known vocabulary adds 1 to games_played of its
\* bucket and nothing to the bucket's wins, losses or timeouts.
C6_UnknownResultCounted ==
    LastIsUnknownResult =>
       LET t == EndTimeOf(games[Len(games)])
       IN  /\ out.op = "main_reports" =>
                LET now == ReportRow(out.res.value.Month, MonthOf(t))
                    before == ReportRow(main_reports(AllButLast, USERNAME).Month, MonthOf(t))
                IN  now = [before EXCEPT !.games_played = @ + 1]
           /\ (/\ out.op = "generate_monthly_report"
               /\ out.res.status = "ok"
               /\ generate_monthly_report(AllButLast, USERNAME).status = "ok") =>
                LET now == MonthRow(out.res.value, MonthOf(t))
                    before == MonthRow(generate_monthly_report(AllButLast, USERNAME).value,
                                       MonthOf(t))
                IN  now = [before EXCEPT !.games_played = @ + 1]
           /\ (/\ out.op = "analyze_time_stats"
               /\ out.res.status = "ok"
               /\ analyze_time_stats(AllButLast, USERNAME).status = "ok") =>
                LET now == DayHourRow(out.res.value, DayNameOf(t), HourOf(t))
                    before == DayHourRow(analyze_time_stats(AllButLast, USERNAME).value,
                                         DayNameOf(t), HourOf(t))
                IN  now = [before EXCEPT !.games_played = @ + 1]

-----------------------------------------------------------------------------
(* C7 *)

\* C7: no rate or probability computation raises a division error, and each
\* gives 0 when its denominator is 0: the bucket rates, the overall win and
\* timeout rate, the streak and sequence probabilities, the average of games
\* per day.
C7_NoDivisionError ==
    /\ out.op = "calculate_rates" =>
          LET r == out.res.value
          IN  /\ ~r.win_rate.raised /\ ~r.loss_rate.raised /\ ~r.timeout_rate.raised
              /\ out.total_games = 0 =>
                    IsZero(r.win_rate) /\ IsZero(r.loss_rate) /\ IsZero(r.timeout_rate)
    /\ out.op = "calculate_probability" =>
          /\ ~out.res.value.raised
          /\ out.denominator = 0 => IsZero(out.res.value)
    /\ out.op = "analyze_games" =>
          LET r == out.res.value
          IN  /\ ~r.win_rate.raised /\ ~r.timeout_rate.raised
              /\ r.total_games = 0 => IsZero(r.win_rate) /\ IsZero(r.timeout_rate)
    /\ out.op \in {"generate_monthly_report", "analyze_time_stats", "analyze_streaks",
                   "analyze_sequences", "calculate_average_and_median_games",
                   "get_monthly_report"} =>
          ~(out.res.status = "raise" /\ out.res.exc = "ZeroDivisionError")
    /\ (out.op = "generate_monthly_report" /\ out.res.status = "ok") =>
          \A i \in DOMAIN out.res.value :
             /\ ~out.res.value[i].Win_Rate_percent.raised
             /\ ~out.res.value[i].Timeout_Rate_percent.raised
    /\ out.op = "main_reports" =>
          \A i \in DOMAIN out.res.value.Day_Hour :
             /\ ~out.res.value.Day_Hour[i].Win_Rate.raised
             /\ ~out.res.value.Day_Hour[i].Loss_Rate.raised
             /\ ~out.res.value.Day_Hour[i].Timeout_Rate.raised
    /\ (out.op = "analyze_streaks" /\ out.res.status = "ok") =>
          LET c == streaks_counts(sorted_end_time(games).value, USERNAME)
              r == out.res.value
          IN  /\ ~r.win_probability.raised /\ ~r.loss_probability.raised
              /\ c.total_win_streaks = 0 => IsZero(r.win_probability)
              /\ c.total_loss_streaks = 0 => IsZero(r.loss_probability)
    /\ (out.op = "analyze_sequences" /\ out.res.status = "ok") =>
          LET c == sequences_counts(sorted_end_time(games).value, USERNAME)
              r == out.res.value
          IN  /\ ~r.win_after_win_loss_probability.raised
              /\ ~r.win_after_loss_win_probability.raised
              /\ c.total_win_loss = 0 => IsZero(r.win_after_win_loss_probability)
              /\ c.total_loss_win = 0 => IsZero(r.win_after_loss_win_probability)
    /\ (out.op = "calculate_average_and_median_games" /\ out.res.status = "ok") =>
          ~out.res.value.average_games.raised

\* analyze_streaks has run on two games that form no same-hour pair after a
\* win, so the win probability has a zero denominator
C7_Witness ==
    /\ out.op = "analyze_streaks"
    /\ out.res.status = "ok"
    /\ Len(games) = 2
    /\ streaks_counts(sorted_end_time(games).value, USERNAME).total_win_streaks = 0
    /\ streaks_counts(sorted_end_time(games).value, USERNAME).total_loss_streaks = 1
    /\ IsZero(out.res.value.win_probability)

-----------------------------------------------------------------------------
(* C8 *)

\* C8: on an empty record sequence the report pipeline raises nothing and
\* gives a report with no row and a summary of zeros.
C8_EmptyInputReport ==
    /\ (out.op = "get_monthly_report" /\ games = <<>>) =>
          /\ out.res.status = "ok"
          /\ "report_df" \in DOMAIN out.res.value
          /\ out.res.value.report_df = <<>>
          /\ out.res.value.summary.total_games = 0
          /\ out.res.value.summary.total_wins = 0
          /\ out.res.value.summary.total_losses = 0
          /\ out.res.value.summary.total_timeouts = 0
          /\ IsZero(out.res.value.summary.average_games)
          /\ IsZero(out.res.value.summary.median_games)
          /\ IsZero(out.res.value.summary.win_prob)
          /\ IsZero(out.res.value.summary.loss_prob)
          /\ IsZero(out.res.value.summary.win_after_wl_prob)
          /\ IsZero(out.res.value.summary.win_after_lw_prob)
    /\ (out.op \in {"analyze_games", "generate_monthly_report",
                    "calculate_average_and_median_games", "analyze_streaks",
                    "analyze_sequences"} /\ games = <<>>) =>
          out.res.status = "ok"

-----------------------------------------------------------------------------
(* C9 *)

\* some record holds the end_time key with the value null
SomeNullEndTime == \E i \in DOMAIN games :
    "end_time" \in DOMAIN games[i] /\ games[i].end_time = Null

\* some record holds an integer end_time
SomeIntEndTime == \E i \in DOMAIN games :
    "end_time" \in DOMAIN games[i] /\ games[i].end_time # Null

\* C9: aggregating a sequence where a record with a null end_time stands next
\* to records with an integer end_time raises nothing: the null record is
\* skipped, also by the sort that precedes the aggregation, the streak
\* analysis and the tilt detection.
C9_NullEndTimeSkipped ==
    (SomeNullEndTime /\ SomeIntEndTime) =>
        (out.op \in {"generate_monthly_report", "analyze_time_stats",
                     "detect_tilt_streaks", "analyze_streaks", "analyze_sequences",
                     "get_monthly_report"} =>
            ~(out.res.status = "raise" /\ out.res.exc = "TypeError"))

-----------------------------------------------------------------------------
(* C10 *)

\* C10: the normalizer matches the username whatever the letter case: a
\* record whose white (or black) username differs from the target's only in
\* case is normalized with that side's result.
C10_CaseInsensitiveMatch ==
    out.op = "get_game_result" =>
        out.value = Normalize(MatchedResultAnyCase(out.game))

-----------------------------------------------------------------------------
(* C11 *)

\* the sequence in reverse order
Reverse(s) == [i \in DOMAIN s |-> s[Len(s) + 1 - i]]

\* the rows of a report as a set: the buckets, whatever their order
RowSet(rows) == {rows[i] : i \in DOMAIN rows}

\* two reports hold the same buckets with the same figures
SameRows(a, b) == Len(a) = Len(b) /\ RowSet(a) = RowSet(b)

\* two calls end alike: both raise, or both return the same buckets
SameBuckets(a, b) ==
    /\ a.status = b.status
    /\ a.status = "ok" => SameRows(a.value, b.value)

\* C11: aggregating a record sequence and aggregating its reverse-ordered copy
\* give the same set of buckets, with the same games played, wins, losses,
\* timeouts and rates in each bucket, in generate_monthly_report, in
\* analyze_time_stats and in the four reports of the archive analyze_games.
C11_OrderIndependence ==
    /\ out.op = "generate_monthly_report" =>
          SameBuckets(out.res, generate_monthly_report(Reverse(games), USERNAME))
    /\ out.op = "analyze_time_stats" =>
          SameBuckets(out.res, analyze_time_stats(Reverse(games), USERNAME))
    /\ out.op = "main_reports" =>
          LET rev == main_reports(Reverse(games), USERNAME)
          IN  /\ SameRows(out.res.value.Month, rev.Month)
              /\ SameRows(out.res.value.Day, rev.Day)
              /\ SameRows(out.res.value.Hour, rev.Hour)
              /\ SameRows(out.res.value.Day_Hour, rev.Day_Hour)

\* the archive reports of three games of which two share a month, whose
\* reverse-ordered copy lists the months in another order
C11_Witness ==
    /\ out.op = "main_reports"
    /\ Len(games) = 3
    /\ Len(out.res.value.Month) = 2
    /\ \E i \in 1..2 : out.res.value.Month[i].Games_Played = 2
    /\ out.res.value.Month # main_reports(Reverse(games), USERNAME).Month

-----------------------------------------------------------------------------
(* C12 *)

\* the numbers of a sequence grow strictly from each row to the next
Ascending(ks) == \A i \in 1..(Len(ks) - 1) : ks[i] < ks[i + 1]

\* C12: the rows of every report are ordered by key whatever the order of
\* the input records: month rows chronologically, weekday rows from Monday to
\* Sunday, hour rows by ascending hour, weekday-hour rows by weekday and then
\* hour.
C12_RowsOrdered ==
    /\ (out.op = "generate_monthly_report" /\ out.res.status = "ok") =>
          Ascending([i \in DOMAIN out.res.value |-> out.res.value[i].Month])
    /\ (out.op = "analyze_time_stats" /\ out.res.status = "ok") =>
          Ascending([i \in DOMAIN out.res.value |-> DayHourKey(out.res.value[i])])
    /\ out.op = "main_reports" =>
          LET r == out.res.value
          IN  /\ Ascending([i \in DOMAIN r.Month |-> r.Month[i].key])
              /\ Ascending([i \in DOMAIN r.Day |-> DayIndex(r.Day[i].key)])
              /\ Ascending([i \in DOMAIN r.Hour |-> r.Hour[i].key])
              /\ Ascending([i \in DOMAIN r.Day_Hour |->
                               DayIndex(r.Day_Hour[i].key[1]) * 24 + r.Day_Hour[i].key[2]])

-----------------------------------------------------------------------------
(* C13 *)

\* the streak result of a record: win, loss (a timeout is a lost game), or
\* None
WinLoss(g) ==
    IF MatchedResult(g) = "win" THEN "win"
    ELSE IF MatchedResult(g) \in LossStrings \cup {"timeout"} THEN "loss"
    ELSE None

\* the record has an end_time and a streak result
Normalized(g) == HasEndTime(g) /\ EndTimeOf(g) # 0 /\ WinLoss(g) # None

\* the input of analyze_streaks and analyze_sequences: the records sorted by
\* end_time, when the sort completes
SortedInput == sorted_end_time(games).value

\* positions i of s whose record and the one before it end in the same hour,
\* the one before having result r
SameHourAfter(s, r) ==
    {i \in 2..Len(s) : /\ HourOf(EndTimeOf(s[i - 1])) = HourOf(EndTimeOf(s[i]))
                       /\ WinLoss(s[i - 1]) = r}

\* those of them whose own result is r as well
SameHourRepeat(s, r) == {i \in SameHourAfter(s, r) : WinLoss(s[i]) = r}

\* numerator / denominator as a percentage, 0 when the denominator is 0
Probability(n, d) == IF d = 0 THEN Zero ELSE Float(n * 100, d)

\* C13: over an end_time-sorted input of games that each have a result,
\* analyze_streaks counts every same-hour adjacent pair whose previous result
\* is win toward the win-streak denominator and, when the current result is
\* win too, toward the win-after-win numerator, and symmetrically for loss;
\* the probabilities it returns are numerator / denominator * 100.
C13_StreakCounts ==
    (/\ out.op = "analyze_streaks"
     /\ out.res.status = "ok"
     /\ \A i \in DOMAIN games : Normalized(games[i]))
    => LET s == SortedInput
           st == streaks_counts(s, USERNAME)
       IN  /\ st.total_win_streaks = Cardinality(SameHourAfter(s, "win"))
           /\ st.win_after_win = Cardinality(SameHourRepeat(s, "win"))
           /\ st.total_loss_streaks = Cardinality(SameHourAfter(s, "loss"))
           /\ st.loss_after_loss = Cardinality(SameHourRepeat(s, "loss"))
           /\ out.res.value.win_probability =
                 Probability(Cardinality(SameHourRepeat(s, "win")),
                             Cardinality(SameHourAfter(s, "win")))
           /\ out.res.value.loss_probability =
                 Probability(Cardinality(SameHourRepeat(s, "loss")),
                             Cardinality(SameHourAfter(s, "loss")))

\* three games in hour 10 with results win, win, loss: 2 qualifying
\* transitions, 1 win after win, a probability of 50%
C13_Witness ==
    /\ out.op = "analyze_streaks"
    /\ out.res.status = "ok"
    /\ Len(games) = 3
    /\ \A i \in 1..3 : HourOf(EndTimeOf(SortedInput[i])) = 10
    /\ [i \in 1..3 |-> WinLoss(SortedInput[i])] = <<"win", "win", "loss">>
    /\ streaks_counts(SortedInput, USERNAME).total_win_streaks = 2
    /\ streaks_counts(SortedInput, USERNAME).win_after_win = 1
    /\ out.res.value.win_probability = Float(100, 2)

-----------------------------------------------------------------------------
(* C14 *)

\* positions i of s whose record and the one before it end in the same hour
\* of the day
SameHourPairs(s) ==
    {i \in 2..Len(s) : HourOf(EndTimeOf(s[i - 1])) = HourOf(EndTimeOf(s[i]))}

\* C14: in analyze_streaks and analyze_sequences two consecutive games of the
\* sorted input are adjacent exactly when their end_time values have the same
\* hour of the day: over games that each have a result, the pairs
\* analyze_streaks counts are the consecutive pairs ending in the same hour,
\* and the pairs analyze_sequences counts are those of them whose two results
\* differ; neither the day nor the time between the two games matters.
C14_SameHourAdjacency ==
    /\ (/\ out.op = "analyze_streaks"
        /\ out.res.status = "ok"
        /\ \A i \in DOMAIN games : Normalized(games[i]))
       => LET st == streaks_counts(SortedInput, USERNAME)
          IN  st.total_win_streaks + st.total_loss_streaks =
                 Cardinality(SameHourPairs(SortedInput))
    /\ (/\ out.op = "analyze_sequences"
        /\ out.res.status = "ok"
        /\ \A i \in DOMAIN games : Normalized(games[i]))
       => LET s == SortedInput
              st == sequences_counts(s, USERNAME)
          IN  st.total_win_loss + st.total_loss_win =
                 Cardinality({i \in SameHourPairs(s) : WinLoss(s[i - 1]) # WinLoss(s[i])})

\* three won games: the second ends days after the first in the same hour
\* and is counted as adjacent to it, the third ends five minutes after the
\* second in the next hour and is not
C14_Witness ==
    /\ out.op = "analyze_streaks"
    /\ out.res.status = "ok"
    /\ Len(games) = 3
    /\ \A i \in 1..3 : WinLoss(games[i]) = "win"
    /\ DateOf(EndTimeOf(SortedInput[1])) # DateOf(EndTimeOf(SortedInput[2]))
    /\ HourOf(EndTimeOf(SortedInput[1])) = HourOf(EndTimeOf(SortedInput[2]))
    /\ EndTimeOf(SortedInput[3]) - EndTimeOf(SortedInput[2]) = 300
    /\ HourOf(EndTimeOf(SortedInput[3])) # HourOf(EndTimeOf(SortedInput[2]))
    /\ streaks_counts(SortedInput, USERNAME).total_win_streaks = 1
    /\ streaks_counts(SortedInput, USERNAME).win_after_win = 1

-----------------------------------------------------------------------------
(* C15 *)

\* positions i of s whose record and the one just before it in s both have a
\* result and end in the same hour: a record without a result pairs with
\* neither neighbour, and its neighbours do not pair across it
UnbrokenPairs(s) ==
    {i \in 2..Len(s) : /\ Normalized(s[i - 1])
                       /\ Normalized(s[i])
                       /\ HourOf(EndTimeOf(s[i - 1])) = HourOf(EndTimeOf(s[i]))}

\* C15: in analyze_streaks and analyze_sequences a record with no normalized
\* result breaks the adjacency chain: it is never the previous result, and
\* the first record with a result after it forms no pair with the record
\* that came before it; the pairs counted are those of records that follow
\* each other directly in the sorted input.
C15_UnknownBreaksChain ==
    /\ (out.op = "analyze_streaks" /\ out.res.status = "ok")
       => LET s == SortedInput
              st == streaks_counts(s, USERNAME)
          IN  /\ st.total_win_streaks =
                    Cardinality({i \in UnbrokenPairs(s) : WinLoss(s[i - 1]) = "win"})
              /\ st.total_loss_streaks =
                    Cardinality({i \in UnbrokenPairs(s) : WinLoss(s[i - 1]) = "loss"})
    /\ (out.op = "analyze_sequences" /\ out.res.status = "ok")
       => LET s == SortedInput
              st == sequences_counts(s, USERNAME)
          IN  st.total_win_loss + st.total_loss_win =
                 Cardinality({i \in UnbrokenPairs(s) : WinLoss(s[i - 1]) # WinLoss(s[i])})

-----------------------------------------------------------------------------
(* C16 *)

\* positions i of s closing a same-hour pair with results (a, b)
SameHourSequence(s, a, b) ==
    {i \in SameHourPairs(s) : WinLoss(s[i - 1]) = a /\ WinLoss(s[i]) = b}

\* those of them followed in s by a won game, whatever its hour
FollowedByWin(s, a, b) ==
    {i \in SameHourSequence(s, a, b) : i + 1 <= Len(s) /\ WinLoss(s[i + 1]) = "win"}

\* C16: over games that each have a result, analyze_sequences adds 1 to the
\* win-loss denominator for each same-hour adjacent pair (win, loss), and 1
\* to the win-after-win-loss numerator exactly when the game following the
\* pair in sort order is won, whatever its hour; a pair with no following
\* game adds nothing to the numerator; symmetrically for (loss, win) pairs;
\* each numerator is at most its denominator.
C16_SequenceCounts ==
    (/\ out.op = "analyze_sequences"
     /\ out.res.status = "ok"
     /\ \A i \in DOMAIN games : Normalized(games[i]))
    => LET s == SortedInput
           st == sequences_counts(s, USERNAME)
       IN  /\ st.total_win_loss = Cardinality(SameHourSequence(s, "win", "loss"))
           /\ st.win_after_win_loss = Cardinality(FollowedByWin(s, "win", "loss"))
           /\ st.total_loss_win = Cardinality(SameHourSequence(s, "loss", "win"))
           /\ st.win_after_loss_win = Cardinality(FollowedByWin(s, "loss", "win"))
           /\ st.win_after_win_loss <= st.total_win_loss
           /\ st.win_after_loss_win <= st.total_loss_win
           /\ out.res.value.win_after_win_loss_probability =
                 Probability(st.win_after_win_loss, st.total_win_loss)
           /\ out.res.value.win_after_loss_win_probability =
                 Probability(st.win_after_loss_win, st.total_loss_win)

\* a won and then a lost game in hour 10, followed by a won game in hour 11:
\* the pair counts and the following game, of another hour, counts as its win
C16_Witness ==
    /\ out.op = "analyze_sequences"
    /\ out.res.status = "ok"
    /\ Len(games) = 3
    /\ [i \in 1..3 |-> WinLoss(SortedInput[i])] = <<"win", "loss", "win">>
    /\ [i \in 1..3 |-> HourOf(EndTimeOf(SortedInput[i]))] = <<10, 10, 11>>
    /\ sequences_counts(SortedInput, USERNAME).total_win_loss = 1
    /\ sequences_counts(SortedInput, USERNAME).win_after_win_loss = 1
    /\ sequences_counts(SortedInput, USERNAME).total_loss_win = 0
    /\ out.res.value.win_after_win_loss_probability = Float(100, 1)

-----------------------------------------------------------------------------
(* C17 *)

\* the calls that report the move timing of a game
MoveTimingOps ==
    {"get_move_timing_analysis", "process_moves", "time_mgmt_process_chess_data"}

\* C17: every move-timing entry reported for a game has a time_spent
\* strictly greater than 0; a ply whose clock difference is zero or negative
\* is not reported.
C17_PositiveTimeSpent ==
    out.op \in MoveTimingOps =>
       \A i \in DOMAIN out.res.value : out.res.value[i].time_spent > 0

-----------------------------------------------------------------------------
(* C18 *)

\* how a parser names the first ply of a side
FirstPlyMoves(side) ==
    IF side = "white" THEN {SanMoves[1]}
    ELSE {SanMoves[2], BlackText(1, SanMoves[2])}

\* C18: the target side's first ply of a game never appears in the
\* move-timing output: no earlier clock reading of that side exists to
\* compare it with.
C18_FirstPlyExcluded ==
    out.op \in MoveTimingOps =>
       \A i \in DOMAIN out.res.value : out.res.value[i].move \notin FirstPlyMoves(out.side)

-----------------------------------------------------------------------------
(* C19 *)

\* 1. e4 {[%clk 0:05:00]} 1... e5 {[%clk 0:05:00]} 2. Nf3 {[%clk 0:04:50]}
\* 2... Nc6 {[%clk 0:04:48]}
ExampleText ==
    << Clock3(0, 5, 0, FALSE, 0), Clock3(0, 5, 0, FALSE, 0),
       Clock3(0, 4, 50, FALSE, 0), Clock3(0, 4, 48, FALSE, 0) >>

\* C19: given the notation text above and White as the target side, the
\* move-timing parser reports exactly one entry, move 2 Nf3 with 10 seconds
\* spent and 290 seconds remaining, and no entry for move 1 e4.
C19_ExampleTiming ==
    /\ (out.op = "process_moves" /\ moves_text = ExampleText /\ out.side = "white")
       => /\ Len(out.res.value) = 1
          /\ out.res.value[1].move_str = "2. Nf3"
          /\ out.res.value[1].time_spent = 100
          /\ out.res.value[1].current_time = 2900
    /\ (out.op = "get_move_timing_analysis" /\ moves_text = ExampleText
        /\ out.side = "white")
       => /\ Len(out.res.value) = 1
          /\ out.res.value[1].move_number = 2
          /\ out.res.value[1].move = "Nf3"
          /\ out.res.value[1].time_spent = 100
          /\ out.res.value[1].remaining_time = 2900

-----------------------------------------------------------------------------
(* C20 *)

\* the total seconds a clock text stands for, in tenths: h:mm:ss(.d) or
\* m:ss(.d)
ClockSeconds(clock) ==
    LET p == clock.parts
        d == IF clock.dot THEN clock.tenths ELSE 0
    IN  IF Len(p) = 3 THEN p[1] * 36000 + p[2] * 600 + p[3] * 10 + d
        ELSE p[1] * 600 + p[2] * 10 + d

\* C20: every clock-to-seconds routine of the move-timing parser turns a
\* three-field clock H:MM:SS into H*3600 + MM*60 + SS and a two-field clock
\* M:SS.s into M*60 + SS.s.
C20_ClockConversion ==
    out.op \in {"convert_clock_to_seconds", "clock_to_seconds", "time_mgmt_clock_to_seconds"}
    => out.res = Ok(ClockSeconds(out.clock))

-----------------------------------------------------------------------------
(* C21 *)

\* the calls that report the move timing of a game for the target player of
\* that game
PlayerTimingOps ==
    {"get_move_timing_analysis", "time_visu_top_thinks", "time_mgmt_process_chess_data"}

\* how the parsers name the plies of a side
PliesOf(side) ==
    IF side = "white" THEN {SanMoves[2 * j - 1] : j \in 1..(Len(SanMoves) \div 2)}
    ELSE UNION {{SanMoves[2 * j], BlackText(j, SanMoves[2 * j])} :
                  j \in 1..(Len(SanMoves) \div 2)}

\* C21: the move-timing output of a game holds only plies played by the
\* target player's side: no entry is reported for a ply of the opponent, and
\* no entry at all when the target player is on neither side of the game.
C21_OnlyTargetSide ==
    out.op \in PlayerTimingOps =>
       /\ out.side = "none" => out.res.value = <<>>
       /\ out.side # "none" =>
             \A i \in DOMAIN out.res.value : out.res.value[i].move \in PliesOf(out.side)

-----------------------------------------------------------------------------
(* C22 *)

\* each entry's time_spent is >= the next entry's
Descending(entries) ==
    \A i \in 1..(Len(entries) - 1) : entries[i].time_spent >= entries[i + 1].time_spent

\* how many entries have a time_spent of at least v
AtLeast(entries, v) == Cardinality({i \in DOMAIN entries : entries[i].time_spent >= v})

\* top holds at most n entries, and their time_spent values are the n
\* largest of the retained entries
TopOf(top, retained, n) ==
    /\ Len(top) = (IF Len(retained) < n THEN Len(retained) ELSE n)
    /\ \A i \in DOMAIN retained :
          LET v == retained[i].time_spent
          IN  AtLeast(top, v) = (IF AtLeast(retained, v) < n THEN AtLeast(retained, v) ELSE n)
    /\ \A i \in DOMAIN top : \E j \in DOMAIN retained : top[i].time_spent = retained[j].time_spent

\* the plies the parsers retain for the side of the call
RetainedByAnalyzer == get_move_timing_analysis(TimedGame(out.side, "300")).value
RetainedByProcessMoves == process_moves(moves_text, out.side = "white", 300)

\* C22: the move-timing output is sorted by time_spent in descending order,
\* and when truncated to top-N it has at most N entries, which are the N
\* largest time_spent values among the target side's retained plies.
C22_SortedTopN ==
    /\ (out.op = "get_move_timing_analysis") => Descending(out.res.value)
    /\ (out.op = "analyze_recent_game_timing") =>
          /\ out.res.status = "ok"
          /\ \A i \in DOMAIN out.res.value :
                /\ Descending(out.res.value[i].longest_moves)
                /\ TopOf(out.res.value[i].longest_moves, RetainedByAnalyzer,
                         out.moves_per_game)
    /\ (out.op = "time_visu_find_top_thinks") =>
          /\ Descending(out.res.value)
          /\ TopOf(out.res.value, RetainedByProcessMoves, out.top_n)
    /\ (out.op = "time_visu_top_thinks" /\ out.side # "none") =>
          /\ Descending(out.res.value)
          /\ TopOf(out.res.value, RetainedByProcessMoves, 3)

\* a report cut to the top 1 of two retained plies, the longer think being
\* the later ply
C22_Witness ==
    /\ out.op = "analyze_recent_game_timing"
    /\ out.moves_per_game = 1
    /\ Len(out.res.value) = 1
    /\ LET all == move_timing_try(TimedGame(out.side, "300")).value
           top == out.res.value[1].longest_moves
       IN  /\ Len(all) = 2
           /\ all[1].move_number > all[2].move_number
           /\ all[1].time_spent > all[2].time_spent
           /\ top = <<all[1]>>

-----------------------------------------------------------------------------
(* C23 *)

\* the notation text of the game cannot be parsed: the record lacks what the
\* analysis reads, or no White clock of the text fits the clock pattern
Unparsable ==
    \/ out.shape # "full"
    \/ \A j \in 1..NumEntries(moves_text) : ~AnalyzerClockPattern(moves_text[2 * j - 1])

\* C23: get_move_timing_analysis returns an empty sequence and raises nothing
\* to its caller whenever the game's notation text cannot be parsed: no pgn
\* field, no movetext section after the headers, no clock annotation matching
\* the pattern, or a malformed record that makes the parsing fail.
C23_EmptyOnParseFailure ==
    out.op = "get_move_timing_analysis" =>
       /\ out.res.status = "ok"
       /\ Unparsable => out.res.value = <<>>

\* a record whose pgn is None: the parsing raises, the caller gets []
C23_Witness ==
    /\ out.op = "get_move_timing_analysis"
    /\ out.shape = "pgn_none"
    /\ move_timing_try(MalformedGames["pgn_none"]) = Raise("AttributeError")
    /\ out.res = Ok(<<>>)

-----------------------------------------------------------------------------
(* C24 *)

\* the games of a list have pairwise distinct urls
DistinctUrls(gs) == \A i, j \in DOMAIN gs : gs[i].url = gs[j].url => i = j

\* every game of before is a game of after
StillStored(before, after) ==
    \A i \in DOMAIN before : \E j \in DOMAIN after : after[j] = before[i]

\* C24: add_games adds new games avoiding duplicates: starting from a store
\* whose games have pairwise distinct urls, after any sequence of add_games
\* calls with any lists of new games (a list holding the same url twice
\* included) the stored games still have pairwise distinct urls, and every
\* game stored before a call is still stored after it.
C24_AddGamesNoDuplicates ==
    /\ DistinctUrls(analyzer.games)
    /\ analyzer.last.op = "add_games" => StillStored(analyzer.last.before, analyzer.games)

-----------------------------------------------------------------------------
(* C25 *)

\* the row the latest call appended to the log
LastRow == dashboard.log[Len(dashboard.log)]

\* C25: when two authenticated users use the dashboard concurrently, every
\* Search action is logged under the username of the user who issued that
\* search: the user name written by get_report_with_user never belongs to
\* another user who logged in between the issuer's login and the issuer's
\* search.
C25_SearchLoggedUnderIssuer ==
    dashboard.last.op = "get_report_with_user" =>
       /\ LastRow.action = "Search"
       /\ LastRow.username = dashboard.last.issuer

-----------------------------------------------------------------------------
(* C26 *)

\* the user lost the game, in any way
LostAnyWay(g) == MatchedResult(g) \in LossStrings \cup {"timeout"}

\* the streak lengths of the tilt occurrences of a sequence: a run of n
\* consecutive lost games gives one occurrence, after which, as after a game
\* that is not lost, the count of the streak restarts at 0
RECURSIVE TiltLengths(_, _, _)
TiltLengths(s, n, streak) ==
    IF s = <<>> THEN <<>>
    ELSE IF ~LostAnyWay(Head(s)) THEN TiltLengths(Tail(s), n, 0)
    ELSE IF streak + 1 >= n THEN <<n>> \o TiltLengths(Tail(s), n, 0)
    ELSE TiltLengths(Tail(s), n, streak + 1)

\* C26: detect_tilt_streaks detects streaks of consecutive losses: every run
\* of tilt_streak_count consecutive games lost by the user in any way
\* (checkmated, timeout, resigned, lose or abandoned), with no game that is
\* not lost between them, gives one tilt occurrence of streak_length
\* tilt_streak_count, after which the streak counter restarts at 0; a game
\* that is not lost resets the counter to 0.
C26_TiltStreaks ==
    (/\ out.op \in {"detect_tilt_streaks", "tiltor_detect_tilt_streaks"}
     /\ \A i \in DOMAIN games : HasEndTime(games[i]))
    => /\ out.res.status = "ok"
       /\ [i \in DOMAIN out.res.value |-> out.res.value[i].streak_length]
            = TiltLengths(SortedInput, out.tilt_streak_count, 0)

-----------------------------------------------------------------------------
(* C27 *)

\* C27: filter_games and find_similar_games share no mutable state with the
\* store: after any sequence of calls to them, self.games holds the same
\* records with the same fields and values as before, so that a following
\* save_games or add_games writes the store exactly as it would have without
\* those calls.
C27_QueriesLeaveStore ==
    /\ analyzer.last.op \in {"filter_games", "find_similar_games"} =>
          analyzer.games = analyzer.last.before
    /\ analyzer.last.op \in {"save_games", "add_games"} =>
          /\ analyzer.last.res.status = "ok"
          /\ analyzer.file = WrittenFile(analyzer.games)
          /\ \A i \in DOMAIN analyzer.games :
                \E j \in DOMAIN FetchedGames : analyzer.games[i] = FetchedGames[j]

-----------------------------------------------------------------------------
(* C28 *)

\* C28: after any sequence of update_games calls on one ChessDataUpdater
\* whose file starts with pairwise distinct game urls, the saved file holds
\* no two games with the same url, and the total count returned by each call
\* that saved the file is the number of games in the saved file.
C28_UpdaterFileDistinct ==
    /\ updater.file.state = "written" => DistinctUrls(updater.file.content)
    /\ (updater.last.op = "update_games" /\ updater.last.saved) =>
          /\ updater.file.state = "written"
          /\ updater.last.res[2] = Len(updater.file.content)

\* a second call on the same object, whose existing_games are older than
\* the file, saved a file of all three games
C28_Witness ==
    /\ updater.last.op = "update_games"
    /\ updater.last.saved
    /\ updater.last.file_before.state = "written"
    /\ Len(updater.last.file_before.content) > Len(updater.existing_games)
    /\ updater.existing_games # <<>>
    /\ updater.last.res = <<1, 3>>
    /\ Len(updater.file.content) = 3

-----------------------------------------------------------------------------
(* C29 *)

\* the attempts of a make_request call that gave a response
SuccessfulAttempts == {k \in DOMAIN out.outcomes : out.outcomes[k] = "ok"}

\* C29: make_request(url, retries=n) with n >= 1 makes at most n GET
\* attempts: it returns the response of the first successful attempt and
\* makes no attempt after it, retries after each failed attempt but the
\* last, and after n failed attempts raises the exception of the last
\* attempt instead of returning.
C29_MakeRequestRetries ==
    (out.op = "make_request" /\ out.retries >= 1) =>
       /\ out.gets <= out.retries
       /\ \A k \in SuccessfulAttempts :
             (\A j \in 1..(k - 1) : j \notin SuccessfulAttempts) =>
                /\ out.gets = k
                /\ out.res = Ok([response_of |-> k])
       /\ SuccessfulAttempts = {} =>
             /\ out.gets = out.retries
             /\ out.res.status = "raise"
             /\ out.res.exc = [exc |-> out.outcomes[out.retries], attempt |-> out.retries]

\* three attempts failed, the first and the last in different ways
C29_Witness ==
    /\ out.op = "make_request"
    /\ out.retries = 3
    /\ out.gets = 3
    /\ out.res.status = "raise"
    /\ out.outcomes[1] # out.outcomes[3]

-----------------------------------------------------------------------------
(* C30 *)

\* the records of the sorted input that calculate_win_probability counts
Dated(s) == {i \in DOMAIN s : ~Falsy(EndTimeOf(s[i]))}

\* the position of record i of s among the records of its calendar day
PositionInDay(s, i) ==
    1 + Cardinality({j \in Dated(s) : j < i /\ DateOf(EndTimeOf(s[j])) = DateOf(EndTimeOf(s[i]))})

\* the records that were the k-th game of their day
KthOfDay(s, k) == {i \in Dated(s) : PositionInDay(s, i) = k}

\* those of them the user won
WonKthOfDay(s, k) ==
    {i \in KthOfDay(s, k) : daily_proba_get_game_result(s[i], USERNAME) = "win"}

\* C30: calculate_win_probability computes the win probability by game
\* position in a day: the position counter restarts at 1 at the first game
\* of each calendar day, so the value for position k is 100 * (wins among
\* games that were the k-th game of their day) / (number of games that were
\* the k-th game of their day), as calculate_win_probability_by_position
\* computes it.
C30_WinProbabilityByDayPosition ==
    (/\ out.op \in {"calculate_win_probability", "calculate_win_probability_by_position"}
     /\ out.res.status = "ok")
    => /\ out.res.value = calculate_win_probability_by_position(SortedInput, USERNAME)
       /\ DOMAIN out.res.value = {k \in 1..Len(SortedInput) : WonKthOfDay(SortedInput, k) # {}}
       /\ \A k \in DOMAIN out.res.value :
             out.res.value[k] = Percent(Cardinality(WonKthOfDay(SortedInput, k)),
                                        Cardinality(KthOfDay(SortedInput, k)))

=============================================================================
